---- MODULE Spec2Model ----
\* Verification model of the usage-statistics collection core:
\*   RateLimiter (src/src/utils/rate-limiter.ts),
\*   DownloadStatsAggregator (src/src/collectors/npm.ts, src/src/aggregator.ts).
EXTENDS Integers, Sequences, FiniteSets, TLC

\* ---------------------------------------------------------------------------
\* Bounds of the model
\* ---------------------------------------------------------------------------
MaxOps == 5
MaxConc == 2
MaxElapse == 1

\* ---------------------------------------------------------------------------
\* JavaScript values
\* ---------------------------------------------------------------------------
\* `undefined` for a numeric field (a Partial<RateLimitConfig> field left out,
\* an error object without a status)
Undef == -1
\* `undefined` for a string-valued header
NoHeader == "undefined"
\* a timer that is not armed
NoTimer == -1

Falsy(x) == x = Undef \/ x = 0

\* `null` for a Date
Null == 0

\* getDownloadStats(repository) without options: an absent string and '' are falsy alike
NoOptions == [releaseTag |-> "", assetName |-> ""]

Min(a, b) == IF a < b THEN a ELSE b

RECURSIVE Pow(_, _)
Pow(b, n) == IF n = 0 THEN 1 ELSE b * Pow(b, n - 1)

\* a flattening that puts every later list before the earlier ones
RECURSIVE FlattenBackwards(_)
FlattenBackwards(ss) == IF ss = <<>> THEN <<>> ELSE FlattenBackwards(Tail(ss)) \o Head(ss)

\* results.forEach(stats => allStats.push(...stats))
RECURSIVE Flatten(_)
Flatten(ss) == IF ss = <<>> THEN <<>> ELSE Head(ss) \o Flatten(Tail(ss))

\* String.prototype.includes on a message held as a sequence of words
Includes(msg, needle) ==
    \E k \in 0..(Len(msg) - Len(needle)) :
        \A n \in 1..Len(needle) : msg[k + n] = needle[n]

AbuseDetection == <<"abuse", "detection">>

\* ---------------------------------------------------------------------------
\* Errors thrown by operations (test doubles, adapters)
\* ---------------------------------------------------------------------------
NoHeaders == [present |-> FALSE, remaining |-> NoHeader, retryAfter |-> NoHeader]
Err(status, message, headers) ==
    [status |-> status, message |-> message, headers |-> headers]

NoError == Err(Undef, <<>>, NoHeaders)
E429 == Err(429, <<"Too", "Many", "Requests">>, NoHeaders)
E403 == Err(403, <<"Forbidden">>, NoHeaders)
E404 == Err(404, <<"Not", "Found">>, NoHeaders)
E400 == Err(400, <<"Bad", "Request">>, NoHeaders)
E500 == Err(500, <<"Internal", "Server", "Error">>, NoHeaders)
EParse == Err(Undef, <<"Unexpected", "token">>, NoHeaders)
ENetwork == Err(Undef, <<>>, NoHeaders)
EAbuse == Err(Undef, <<"You", "have", "triggered", "an", "abuse", "detection", "mechanism">>, NoHeaders)
ERemaining0 ==
    Err(Undef, <<"limit">>, [present |-> TRUE, remaining |-> "0", retryAfter |-> NoHeader])
ERemaining5 ==
    Err(500, <<"limit">>, [present |-> TRUE, remaining |-> "5", retryAfter |-> NoHeader])
ERetryAfter ==
    Err(Undef, <<"slow", "down">>, [present |-> TRUE, remaining |-> NoHeader, retryAfter |-> "30"])

AllErrors ==
    {E429, E403, E404, E400, E500, EParse, ENetwork, EAbuse, ERemaining0, ERemaining5, ERetryAfter}

\* ---------------------------------------------------------------------------
\* RateLimiter
\* ---------------------------------------------------------------------------
DefaultMaxRetries == 3
DefaultBaseDelay == 1000
DefaultMaxDelay == 60000
DefaultBackoffMultiplier == 2

\* RateLimiter.constructor: `config.x || default`
RateLimiterConfig(c) ==
    [maxRetries |-> IF Falsy(c.maxRetries) THEN DefaultMaxRetries ELSE c.maxRetries,
     baseDelay |-> IF Falsy(c.baseDelay) THEN DefaultBaseDelay ELSE c.baseDelay,
     maxDelay |-> IF Falsy(c.maxDelay) THEN DefaultMaxDelay ELSE c.maxDelay,
     backoffMultiplier |->
        IF Falsy(c.backoffMultiplier) THEN DefaultBackoffMultiplier ELSE c.backoffMultiplier]

\* new RateLimiter() / new RateLimiter({})
EmptyConfig ==
    [maxRetries |-> Undef, baseDelay |-> Undef, maxDelay |-> Undef, backoffMultiplier |-> Undef]
\* a configuration whose backoff reaches maxDelay on the second retry
SmallConfig ==
    [maxRetries |-> 2, baseDelay |-> 3, maxDelay |-> 5, backoffMultiplier |-> 2]

ConfigInputs == {EmptyConfig, SmallConfig}

\* new RateLimiter({maxRetries: 0, ...}): every value given, no retry wanted
ZeroRetriesConfig ==
    [maxRetries |-> 0, baseDelay |-> 3, maxDelay |-> 5, backoffMultiplier |-> 2]

RetryConfigInputs == ConfigInputs \cup {ZeroRetriesConfig}

\* ---------------------------------------------------------------------------
\* TrackingConfig and the platform sections of collectAllStats
\* ---------------------------------------------------------------------------
\* strings that the aggregator takes apart are held as sequences of characters
IdA == <<"a">>
IdB == <<"b">>
IdC == <<"c">>
IdD == <<"d">>

\* the sections of collectAllStats, in source order, with the arguments each
\* passes to throttleRequests
Platforms ==
    << [name |-> <<"n", "p", "m">>, field |-> "npmPackages", maxConcurrent |-> 2, delay |-> 2000],
       [name |-> <<"g", "i", "t", "h", "u", "b">>, field |-> "githubRepos", maxConcurrent |-> 1, delay |-> 3000],
       [name |-> <<"p", "y", "p", "i">>, field |-> "pythonPackages", maxConcurrent |-> 2, delay |-> 1500],
       [name |-> <<"h", "o", "m", "e", "b", "r", "e", "w">>, field |-> "homebrewPackages", maxConcurrent |-> 2, delay |-> 2000],
       [name |-> <<"p", "o", "w", "e", "r", "s", "h", "e", "l", "l">>, field |-> "powershellModules", maxConcurrent |-> 2, delay |-> 2000],
       [name |-> <<"p", "o", "s", "t", "m", "a", "n">>, field |-> "postmanCollections", maxConcurrent |-> 2, delay |-> 2000],
       [name |-> <<"g", "o">>, field |-> "goModules", maxConcurrent |-> 2, delay |-> 2000] >>

NumPlatforms == Len(Platforms)

\* a field of TrackingConfig: left out (undefined) or a list of identifiers
Absent == [present |-> FALSE, ids |-> <<>>]
Listed(ids) == [present |-> TRUE, ids |-> ids]

VARIABLES
    config,                \* RateLimiter.config
    faults,                \* errors the operations of this run may throw
    probed,                \* whether the caller instruments its operations (calls, slept)
    impl,                  \* which collectAllStats runs: "throttled" (collectors/npm.ts) or "plain" (aggregator.ts)
    stats,                 \* the record list handed to aggregateStats by a direct caller
    operations,            \* throttleRequests: operations
    maxConcurrent,         \* throttleRequests: maxConcurrent
    delayBetweenRequests,  \* throttleRequests: delayBetweenRequests
    i,                     \* throttleRequests: loop variable i
    results,               \* throttleRequests: results
    pc,                    \* position of the throttleRequests coroutine
    pauseTimer,            \* ms left of the sleep between batches
    thrown,                \* error with which throttleRequests rejected
    tasks,                 \* one batchPromise / executeWithRetry chain per operation
    calls,                 \* instrumentation: invocations of each probed operation
    slept,                 \* instrumentation: backoff delays slept for each probed operation
    sinceJoin,             \* stopwatch: ms since the last batch was joined, while pausing
    outOfOrder,            \* instrumentation: an operation settled before an earlier one of its batch
    elapsed,               \* clock ticks taken outside timer deadlines
    trackingConfig,        \* DownloadStatsAggregator.config
    cpc,                   \* position of the collectAllStats coroutine
    platformIdx,           \* the section of collectAllStats that is running
    allStats,              \* collectAllStats: allStats
    fetched,               \* instrumentation: what each adapter invocation settled with
    report,                \* the AggregatedStats returned last
    returned,              \* instrumentation: the reports aggregateStats has returned for stats
    today,                 \* getFullDownloadHistory: today (new Date())
    startDate,             \* getFullDownloadHistory: startDate
    overlap,               \* whether the provider's answer to a range runs one day past its end
    currentStart,          \* getFullDownloadHistory: currentStart
    allDownloads,          \* getFullDownloadHistory: allDownloads
    requests,              \* instrumentation: the ranges fetchChunk has requested, in order
    end,                   \* getFullDownloadHistory: end of the chunk being fetched
    hpc,                   \* position of the getFullDownloadHistory coroutine
    series,                \* what getFullDownloadHistory resolved with
    entry,                 \* the entry point of the run: main (index.ts), run (action.ts, part_003)
    configInput,           \* what the run's configuration input holds: object, null, invalid
    updateInterval,        \* TrackingConfig.updateInterval
    warned,                \* whether the run gave core.warning('No packages configured ...')
    previewMode,           \* --preview / -p on the command line, or the preview-mode input
    outputPaths,           \* which of the output inputs of the action are set
    inActions,             \* GITHUB_ACTIONS === 'true' or --action
    rpc,                   \* position of the run
    effects,               \* files written and commits made by the run, in order
    runError,              \* what the run reported as its failure (core.setFailed, process.exit)
    configGiven,           \* the argument the RateLimiter was constructed with
    timed,                 \* whether the caller watches the instants at which its operations start
    startedNow,            \* instrumentation: the operations first invoked at the present instant
    lastUpdateTime,        \* UsageStatisticsManager.lastUpdateTime
    mpc,                   \* the manager operation that is awaiting its statistics
    log,                   \* instrumentation: what a caller of the manager has observed, in order
    repository,            \* GitHubTracker: the repository argument
    options,               \* GitHubTracker.getDownloadStats: options
    octokit,               \* GitHubTracker.octokit is set (server side) or null (fetch API)
    gcall,                 \* the GitHubTracker method that was called
    gpc,                   \* position of that call
    issued,                \* instrumentation: requests sent to api.github.com by the call
    gvalue,                \* what the call resolved with
    gerror                 \* what the call rejected with

inputVars == <<config, faults, probed, impl, stats, configGiven, timed>>
callVars == <<operations, maxConcurrent, delayBetweenRequests>>
collectVars == <<trackingConfig, cpc, platformIdx, allStats, report>>
historyVars == <<today, startDate, overlap, currentStart, end, allDownloads, requests, hpc,
                 series>>
runVars == <<entry, configInput, updateInterval, warned, previewMode, outputPaths, inActions,
             rpc, effects, runError>>
managerVars == <<lastUpdateTime, mpc, log>>
githubVars == <<repository, options, octokit, gcall, gpc, issued, gvalue, gerror>>
vars == <<inputVars, callVars, i, results, pc, pauseTimer, thrown, tasks, calls, slept,
          sinceJoin, outOfOrder, elapsed, collectVars, fetched, returned, historyVars, runVars,
          startedNow, managerVars, githubVars>>

NoReport == [none |-> TRUE]

\* a shouldRetry that also retries server errors
ShouldRetryServerErrors(error) ==
    error.status \in {403, 429} \/ error.status >= 500
    \/ (error.message # <<>> /\ Includes(error.message, AbuseDetection))
    \/ (error.headers.present
        /\ (error.headers.remaining = "0"
            \/ (error.headers.retryAfter # NoHeader /\ error.headers.retryAfter # "")))

\* RateLimiter.shouldRetry
ShouldRetry(error) ==
    IF error.status = 403 \/ error.status = 429 THEN TRUE
    ELSE IF error.message # <<>> /\ Includes(error.message, AbuseDetection) THEN TRUE
    ELSE IF error.headers.present
            /\ (error.headers.remaining = "0"
                \/ (error.headers.retryAfter # NoHeader /\ error.headers.retryAfter # ""))
         THEN TRUE
    ELSE FALSE

\* a calculateDelay that forgets the cap
CalculateDelayUncapped(retryCount) ==
    config.baseDelay * Pow(config.backoffMultiplier, retryCount)

\* RateLimiter.calculateDelay
CalculateDelay(retryCount) ==
    Min(config.baseDelay * Pow(config.backoffMultiplier, retryCount), config.maxDelay)

\* ---------------------------------------------------------------------------
\* DownloadStatsAggregator.aggregateStats
\* ---------------------------------------------------------------------------
Range(f) == {f[x] : x \in DOMAIN f}

Colon == ":"

\* a package key that tells the periods of a package apart
PackageKeyWithPeriod(stat) == stat.platform \o <<Colon>> \o stat.packageName \o <<stat.period>>

\* `${stat.platform}:${stat.packageName}`
PackageKey(stat) == stat.platform \o <<Colon>> \o stat.packageName

\* String.prototype.split(':') : the segments between the separators
RECURSIVE Split(_)
Split(str) ==
    IF \E n \in 1..Len(str) : str[n] = Colon
    THEN LET n == CHOOSE m \in 1..Len(str) :
                      str[m] = Colon /\ \A l \in 1..(m - 1) : str[l] # Colon
         IN <<SubSeq(str, 1, n - 1)>> \o Split(SubSeq(str, n + 1, Len(str)))
    ELSE <<str>>

\* position of the entry with the given key in a Map / object kept in insertion order
Find(entries, key) ==
    IF \E n \in 1..Len(entries) : entries[n].key = key
    THEN CHOOSE n \in 1..Len(entries) : entries[n].key = key
    ELSE 0

\* packageMap.get / packageMap.set
TrackPackage(packageMap, stat) ==
    LET at == Find(packageMap, PackageKey(stat))
    IN IF at > 0
       THEN [packageMap EXCEPT ![at].downloads = @ + stat.downloadCount]
       ELSE Append(packageMap, [key |-> PackageKey(stat), downloads |-> stat.downloadCount,
                                platform |-> stat.platform])

\* a breakdown that adds the downloads of a package's first record only
UpdateBreakdownFirstOnly(platformBreakdown, stat) ==
    LET pb == IF Find(platformBreakdown, stat.platform) = 0
              THEN Append(platformBreakdown,
                          [key |-> stat.platform, totalDownloads |-> 0, uniquePackages |-> 0,
                           packages |-> <<>>])
              ELSE platformBreakdown
        at == Find(pb, stat.platform)
        isNew == stat.packageName \notin Range(pb[at].packages)
    IN [pb EXCEPT ![at] =
          [@ EXCEPT !.totalDownloads = IF isNew THEN @ + stat.downloadCount ELSE @,
                    !.packages = IF isNew THEN Append(@, stat.packageName) ELSE @,
                    !.uniquePackages = IF isNew THEN @ + 1 ELSE @]]

\* "Update platform breakdown"
UpdateBreakdown(platformBreakdown, stat) ==
    LET pb == IF Find(platformBreakdown, stat.platform) = 0
              THEN Append(platformBreakdown,
                          [key |-> stat.platform, totalDownloads |-> 0, uniquePackages |-> 0,
                           packages |-> <<>>])
              ELSE platformBreakdown
        at == Find(pb, stat.platform)
        isNew == stat.packageName \notin Range(pb[at].packages)
    IN [pb EXCEPT ![at] =
          [@ EXCEPT !.totalDownloads = @ + stat.downloadCount,
                    !.packages = IF isNew THEN Append(@, stat.packageName) ELSE @,
                    !.uniquePackages = IF isNew THEN @ + 1 ELSE @]]

\* the body of `for (const stat of stats)`
ProcessStat(acc, stat) ==
    [totalDownloads |-> acc.totalDownloads + stat.downloadCount,
     platforms |-> IF stat.platform \in Range(acc.platforms) THEN acc.platforms
                   ELSE Append(acc.platforms, stat.platform),
     uniquePackages |-> IF Find(acc.packageMap, PackageKey(stat)) > 0 THEN acc.uniquePackages
                        ELSE acc.uniquePackages + 1,
     packageMap |-> TrackPackage(acc.packageMap, stat),
     platformBreakdown |-> UpdateBreakdown(acc.platformBreakdown, stat)]

RECURSIVE ProcessStats(_, _)
ProcessStats(acc, ss) ==
    IF ss = <<>> THEN acc ELSE ProcessStats(ProcessStat(acc, Head(ss)), Tail(ss))

\* a descending sort that puts an entry before the entries it ties with
RECURSIVE SortByDownloadsUnstable(_)
SortByDownloadsUnstable(entries) ==
    IF entries = <<>> THEN <<>>
    ELSE LET sorted == SortByDownloadsUnstable(SubSeq(entries, 1, Len(entries) - 1))
             x == entries[Len(entries)]
             at == Cardinality({n \in 1..Len(sorted) : sorted[n].downloads > x.downloads})
         IN SubSeq(sorted, 1, at) \o <<x>> \o SubSeq(sorted, at + 1, Len(sorted))

\* Array.prototype.sort((a, b) => b.downloads - a.downloads), which is stable
RECURSIVE SortByDownloads(_)
SortByDownloads(entries) ==
    IF entries = <<>> THEN <<>>
    ELSE LET sorted == SortByDownloads(SubSeq(entries, 1, Len(entries) - 1))
             x == entries[Len(entries)]
             at == Cardinality({n \in 1..Len(sorted) : sorted[n].downloads >= x.downloads})
         IN SubSeq(sorted, 1, at) \o <<x>> \o SubSeq(sorted, at + 1, Len(sorted))

\* "Get top packages"
TopPackages(packageMap) ==
    SortByDownloads([n \in 1..Len(packageMap) |->
        [name |-> Split(packageMap[n].key)[2], platform |-> packageMap[n].platform,
         downloads |-> packageMap[n].downloads]])

\* an aggregation whose counters live on between calls
AggregateStatsCarried(ss) ==
    LET acc == ProcessStats([totalDownloads |-> IF report = NoReport THEN 0
                                                ELSE report.totalDownloads,
                             uniquePackages |-> 0, platforms |-> <<>>,
                             packageMap |-> <<>>, platformBreakdown |-> <<>>], ss)
    IN [totalDownloads |-> acc.totalDownloads,
        uniquePackages |-> acc.uniquePackages,
        platforms |-> acc.platforms,
        platformBreakdown |-> acc.platformBreakdown,
        topPackages |-> TopPackages(acc.packageMap)]

\* aggregateStats(stats): every accumulator is a local of the call
AggregateStats(ss) ==
    LET acc == ProcessStats([totalDownloads |-> 0, uniquePackages |-> 0, platforms |-> <<>>,
                             packageMap |-> <<>>, platformBreakdown |-> <<>>], ss)
    IN [totalDownloads |-> acc.totalDownloads,
        uniquePackages |-> acc.uniquePackages,
        platforms |-> acc.platforms,
        platformBreakdown |-> acc.platformBreakdown,
        topPackages |-> TopPackages(acc.packageMap)]

\* ---------------------------------------------------------------------------
\* Operations
\* ---------------------------------------------------------------------------
N == Len(operations)

\* st: pending (not reached by the loop), sleeping (stagger), running (operation()
\* awaited), backoff (sleep before a retry), resolved, rejected
NewTask ==
    [st |-> "pending", retryCount |-> 0, timer |-> NoTimer, value |-> <<>>, error |-> NoError]

\* a test double: resolves with its own position in the list, or throws
RawOp(j) == [kind |-> "raw", id |-> j]

\* collectAllStats: async () => { try { return await tracker.getDownloadStats(id) }
\*                                catch (error) { console.error(...); return [] } }
WrappedOp(p, k) == [kind |-> "wrapped", id |-> trackingConfig[p].ids[k], platform |-> p, k |-> k]

Stat(platform, packageName, downloadCount) ==
    [platform |-> platform, packageName |-> packageName, downloadCount |-> downloadCount]

\* the record lists a tracker's getDownloadStats may resolve with for one identifier
AdapterRecords(op) ==
    LET name == Platforms[op.platform].name
    IN {<<Stat(name, op.id, 2), Stat(name, op.id, 1)>>}

\* operations whose failure is not caught by the wrapper
OutcomesNoCatch(op) ==
    IF op.kind = "raw"
    THEN {[ok |-> TRUE, value |-> <<op.id>>, error |-> NoError, adapterOk |-> TRUE]}
         \cup {[ok |-> FALSE, value |-> <<>>, error |-> e, adapterOk |-> FALSE] : e \in faults}
    ELSE {[ok |-> TRUE, value |-> r, error |-> NoError, adapterOk |-> TRUE] : r \in AdapterRecords(op)}
         \cup {[ok |-> FALSE, value |-> <<>>, error |-> e, adapterOk |-> FALSE] : e \in faults}

\* what one invocation of an operation may settle with; `adapter` is what the
\* call it wraps settled with
Outcomes(op) ==
    IF op.kind = "raw"
    THEN {[ok |-> TRUE, value |-> <<op.id>>, error |-> NoError, adapterOk |-> TRUE]}
         \cup {[ok |-> FALSE, value |-> <<>>, error |-> e, adapterOk |-> FALSE] : e \in faults}
    ELSE {[ok |-> TRUE, value |-> r, error |-> NoError, adapterOk |-> TRUE] : r \in AdapterRecords(op)}
         \cup {[ok |-> TRUE, value |-> <<>>, error |-> e, adapterOk |-> FALSE] : e \in faults}

\* executeWithRetry(operation, name, retryCount): `await operation()`
Invoke(t, retryCount) ==
    [t EXCEPT !.st = "running", !.retryCount = retryCount, !.timer = NoTimer]

\* executeWithRetry: what follows `await operation()`; the frame's locals end with it
AfterOperation(t, out) ==
    IF out.ok
    THEN [t EXCEPT !.st = "resolved", !.value = out.value, !.retryCount = 0,
                   !.error = NoError]
    ELSE IF ShouldRetry(out.error) /\ t.retryCount < config.maxRetries
         THEN [t EXCEPT !.st = "backoff", !.error = out.error,
                        !.timer = CalculateDelay(t.retryCount)]
         ELSE [t EXCEPT !.st = "rejected", !.error = out.error, !.retryCount = 0]

\* ---------------------------------------------------------------------------
\* throttleRequests
\* ---------------------------------------------------------------------------
\* a slice that takes one operation too many
SliceWide(start, mc, n) == (start + 1)..Min(start + mc + 1, n)

\* operations.slice(start, start + mc) of n operations, as 1-based positions
Slice(start, mc, n) == (start + 1)..Min(start + mc, n)

BatchOf(start) == Slice(start, maxConcurrent, N)

\* a pause between batches as short as the stagger
PauseDelayShort(d) == d

\* the sleep between batches
PauseDelay(d) == d * 2

\* batch.map(async (operation, index) => ...) up to the first await of each callback
LaunchBatch(ts, start, mc, d) ==
    [j \in 1..Len(ts) |->
        IF j \in Slice(start, mc, Len(ts))
        THEN IF j - start - 1 > 0
             THEN [ts[j] EXCEPT !.st = "sleeping", !.timer = d]
             ELSE Invoke(ts[j], 0)
        ELSE ts[j]]

Count(cs, js) == [j \in DOMAIN cs |-> IF j \in js /\ probed THEN cs[j] + 1 ELSE cs[j]]

\* results taken in the reverse of the input order
BatchValuesReversed(ts, start) ==
    [k \in 1..Cardinality(BatchOf(start)) |-> ts[start + Cardinality(BatchOf(start)) + 1 - k].value]

\* results.push(...batchResults)
BatchValues(ts, start) ==
    [k \in 1..Cardinality(BatchOf(start)) |-> ts[start + k].value]

\* the continuation of `await Promise.all(batchPromises)` once task j has settled
AfterSettle(ts, j) ==
    IF pc = "batch" /\ j \in BatchOf(i) /\ ts[j].st = "rejected"
    THEN /\ pc' = "failed"
         /\ thrown' = ts[j].error
         /\ UNCHANGED <<results, pauseTimer, sinceJoin>>
    ELSE IF pc = "batch" /\ \A k \in BatchOf(i) : ts[k].st = "resolved"
    THEN /\ results' = results \o BatchValues(ts, i)
         /\ IF i + maxConcurrent < N
            THEN /\ pc' = "pause"
                 /\ pauseTimer' = PauseDelay(delayBetweenRequests)
                 /\ sinceJoin' = 0
            ELSE /\ pc' = "done"
                 /\ UNCHANGED <<pauseTimer, sinceJoin>>
         /\ UNCHANGED thrown
    ELSE UNCHANGED <<pc, thrown, results, pauseTimer, sinceJoin>>

\* throttleRequests(ops, mc, d) is called: results = [], first iteration of the loop
EnterThrottle(ops, mc, d) ==
    /\ operations' = ops
    /\ maxConcurrent' = mc
    /\ delayBetweenRequests' = d
    /\ i' = 0
    /\ results' = <<>>
    /\ pc' = IF 0 < Len(ops) THEN "batch" ELSE "done"
    /\ tasks' = LaunchBatch([j \in 1..Len(ops) |-> NewTask], 0, mc, d)
    /\ calls' = [j \in 1..Len(ops) |-> IF j = 1 /\ probed THEN 1 ELSE 0]
    /\ slept' = [j \in 1..Len(ops) |-> <<>>]
    /\ startedNow' = IF timed /\ 0 < Len(ops) THEN {1} ELSE {}
    /\ UNCHANGED <<pauseTimer, thrown, sinceJoin, outOfOrder>>

\* a caller invokes throttleRequests with the operations it has prepared
ThrottleCall ==
    /\ pc = "idle"
    /\ EnterThrottle(operations, maxConcurrent, delayBetweenRequests)
    /\ UNCHANGED <<returned, historyVars, runVars, managerVars, githubVars,
                   inputVars, elapsed, collectVars, fetched>>

\* an operation's promise settles inside executeWithRetry
OpSettle(j) ==
    /\ tasks[j].st = "running"
    /\ \E out \in Outcomes(operations[j]) :
          LET ts == [tasks EXCEPT ![j] = AfterOperation(tasks[j], out)]
          IN /\ tasks' = ts
             /\ slept' = IF ts[j].st = "backoff" /\ probed
                         THEN [slept EXCEPT ![j] = Append(@, ts[j].timer)]
                         ELSE slept
             /\ fetched' = IF operations[j].kind = "wrapped"
                           THEN fetched \cup {[p |-> operations[j].platform, k |-> operations[j].k,
                                               ok |-> out.adapterOk, error |-> out.error,
                                               records |-> out.value, invocation |-> calls[j]]}
                           ELSE fetched
             /\ outOfOrder' = (outOfOrder \/ (ts[j].st \in {"resolved", "rejected"}
                                  /\ \E h \in BatchOf(i) : h < j /\ j \in BatchOf(i)
                                        /\ ts[h].st \notin {"resolved", "rejected"}))
             /\ AfterSettle(ts, j)
    /\ UNCHANGED <<returned, historyVars, runVars, managerVars, githubVars, startedNow,
                   inputVars, callVars, i, calls, elapsed, collectVars>>

\* a sleep() of task j resolves: the stagger before the first call, or the backoff
SleepResolve(j) ==
    /\ tasks[j].st \in {"sleeping", "backoff"}
    /\ tasks[j].timer = 0
    /\ tasks' = [tasks EXCEPT ![j] =
                    IF @.st = "sleeping" THEN Invoke(@, 0) ELSE Invoke(@, @.retryCount + 1)]
    /\ calls' = Count(calls, {j})
    /\ startedNow' = IF timed /\ tasks[j].st = "sleeping" THEN startedNow \cup {j} ELSE startedNow
    /\ UNCHANGED <<returned, historyVars, runVars, managerVars, githubVars,
                   inputVars, callVars, i, results, pc, pauseTimer, thrown, slept, sinceJoin,
                   outOfOrder, elapsed, collectVars, fetched>>

\* the sleep between batches resolves: i += maxConcurrent, next iteration
PauseResolve ==
    /\ pc = "pause"
    /\ pauseTimer = 0
    /\ i' = i + maxConcurrent
    /\ pc' = "batch"
    /\ pauseTimer' = NoTimer
    /\ tasks' = LaunchBatch(tasks, i + maxConcurrent, maxConcurrent, delayBetweenRequests)
    /\ calls' = Count(calls, {i + maxConcurrent + 1})
    /\ startedNow' = IF timed THEN startedNow \cup {i + maxConcurrent + 1} ELSE startedNow
    /\ UNCHANGED <<returned, historyVars, runVars, managerVars, githubVars,
                   inputVars, callVars, results, thrown, slept, sinceJoin, outOfOrder, elapsed,
                   collectVars, fetched>>

\* ---------------------------------------------------------------------------
\* The clock: setTimeout callbacks run no earlier than their delay
\* ---------------------------------------------------------------------------
ArmedTimers ==
    {tasks[j].timer : j \in {k \in 1..N : tasks[k].st \in {"sleeping", "backoff"}}}
    \cup (IF pc = "pause" THEN {pauseTimer} ELSE {})

Busy ==
    \/ pc \in {"batch", "pause"}
    \/ \E j \in 1..N : tasks[j].st \in {"sleeping", "running", "backoff"}

CountDown(t, d) == IF t > 0 THEN (IF t > d THEN t - d ELSE 0) ELSE t

TimePasses(d) ==
    /\ tasks' = [j \in 1..N |-> [tasks[j] EXCEPT !.timer = CountDown(@, d)]]
    /\ pauseTimer' = CountDown(pauseTimer, d)
    /\ sinceJoin' = IF pc = "pause" THEN sinceJoin + d ELSE sinceJoin
    /\ startedNow' = {}
    /\ UNCHANGED <<returned, historyVars, runVars, managerVars, githubVars,
                   inputVars, callVars, i, results, pc, thrown, calls, slept, outOfOrder,
                   collectVars, fetched>>

\* time passes up to the next timer deadline
AdvanceToTimer ==
    /\ \E t \in ArmedTimers : t > 0
    /\ TimePasses(CHOOSE t \in ArmedTimers : t > 0 /\ \A u \in ArmedTimers : u > 0 => t <= u)
    /\ UNCHANGED elapsed

\* time passes while operations are in flight or a timer callback is late
Elapse ==
    /\ Busy
    /\ elapsed < MaxElapse
    /\ TimePasses(1)
    /\ elapsed' = elapsed + 1

\* ---------------------------------------------------------------------------
\* Specification: a caller runs throttleRequests(operations, maxConcurrent, delay)
\* ---------------------------------------------------------------------------
ThrottleFaults == {E429, E500}
ThrottleDelays == {1, 2}

NoCollect ==
    /\ impl = "throttled"
    /\ stats = <<>>
    /\ trackingConfig = [p \in 1..NumPlatforms |-> Absent]
    /\ cpc = "idle"
    /\ platformIdx = 0
    /\ allStats = <<>>
    /\ fetched = {}
    /\ report = NoReport

\* getFullDownloadHistory has not been called
NoHistory ==
    /\ today = 0
    /\ startDate = 0
    /\ overlap = FALSE
    /\ currentStart = 0
    /\ end = 0
    /\ allDownloads = <<>>
    /\ requests = <<>>
    /\ hpc = "idle"
    /\ series = <<>>

\* no run of main() or run() is under way
NoRun ==
    /\ entry = "none"
    /\ configInput = "object"
    /\ updateInterval = Undef
    /\ warned = FALSE
    /\ previewMode = FALSE
    /\ outputPaths = {}
    /\ inActions = FALSE
    /\ rpc = "idle"
    /\ effects = <<>>
    /\ runError = "none"

\* no operation of the manager is awaiting its statistics
Idle == [op |-> "idle", platform |-> 0]

\* new Date(): the clock of the observations, never the null of a fresh manager
Now == Len(log) + 1

\* an operation that throws before its assignment leaves lastUpdateTime as it was
ReportTimeUnstamped(ok) == lastUpdateTime

\* this.lastUpdateTime = new Date(), the statement before `return report`
ReportTime(ok) == IF ok THEN Now ELSE lastUpdateTime

\* what a caller observes of one call on the manager
Observed(op, ok, time, rep) == [op |-> op, ok |-> ok, time |-> time, report |-> rep]

\* no caller watches the starts of the operations
NoStagger ==
    /\ timed = FALSE
    /\ startedNow = {}

\* a manager on which nothing has been called
NoManager ==
    /\ lastUpdateTime = Null
    /\ mpc = Idle
    /\ log = <<>>

\* no method of a GitHubTracker has been called
NoGitHub ==
    /\ repository = <<>>
    /\ options = NoOptions
    /\ octokit = TRUE
    /\ gcall = "none"
    /\ gpc = "idle"
    /\ issued = 0
    /\ gvalue = <<>>
    /\ gerror = NoError

NoCall ==
    /\ i = 0
    /\ results = <<>>
    /\ pc = "idle"
    /\ pauseTimer = NoTimer
    /\ thrown = NoError
    /\ tasks = [j \in 1..Len(operations) |-> NewTask]
    /\ calls = [j \in 1..Len(operations) |-> 0]
    /\ slept = [j \in 1..Len(operations) |-> <<>>]
    /\ sinceJoin = 0
    /\ outOfOrder = FALSE
    /\ elapsed = 0

Init ==
    /\ \E c \in ConfigInputs : configGiven = c /\ config = RateLimiterConfig(c)
    /\ faults = ThrottleFaults
    /\ probed = FALSE
    /\ \E n \in 0..MaxOps : operations = [j \in 1..n |-> RawOp(j)]
    /\ maxConcurrent \in 1..MaxConc
    /\ delayBetweenRequests \in ThrottleDelays
    /\ NoCall
    /\ NoCollect
    /\ returned = <<>>
    /\ NoStagger
    /\ NoManager
    /\ NoGitHub
    /\ NoHistory
    /\ NoRun

Next ==
    \/ ThrottleCall
    \/ \E j \in 1..N : OpSettle(j)
    \/ \E j \in 1..N : SleepResolve(j)
    \/ PauseResolve
    \/ AdvanceToTimer
    \/ Elapse

Spec == Init /\ [][Next]_vars

\* ---------------------------------------------------------------------------
\* Specification: a caller runs executeWithRetry(operation, name) on one operation
\* ---------------------------------------------------------------------------
RetryInit ==
    /\ \E c \in RetryConfigInputs : configGiven = c /\ config = RateLimiterConfig(c)
    /\ faults = AllErrors
    /\ probed = TRUE
    /\ operations = <<RawOp(1)>>
    /\ maxConcurrent = 3
    /\ delayBetweenRequests = 1000
    /\ NoCall
    /\ NoCollect
    /\ returned = <<>>
    /\ NoStagger
    /\ NoManager
    /\ NoGitHub
    /\ NoHistory
    /\ NoRun

\* executeWithRetry(operation, operationName) with retryCount = 0
ExecCall ==
    /\ pc = "idle"
    /\ tasks[1].st = "pending"
    /\ tasks' = [tasks EXCEPT ![1] = Invoke(@, 0)]
    /\ calls' = Count(calls, {1})
    /\ UNCHANGED <<returned, historyVars, runVars, managerVars, githubVars, startedNow,
                   inputVars, callVars, i, results, pc, pauseTimer, thrown, slept, sinceJoin,
                   outOfOrder, elapsed, collectVars, fetched>>

RetryNext ==
    \/ ExecCall
    \/ OpSettle(1)
    \/ SleepResolve(1)
    \/ AdvanceToTimer
    \/ Elapse

SpecRetry == RetryInit /\ [][RetryNext]_vars

\* ---------------------------------------------------------------------------
\* collectAllStats / generateReport
\* ---------------------------------------------------------------------------
\* the next section at or after q whose `if (this.config.<field>)` is taken
NextSection(q) ==
    IF \E r \in q..NumPlatforms : trackingConfig[r].present
    THEN CHOOSE r \in q..NumPlatforms :
            trackingConfig[r].present /\ \A l \in q..(r - 1) : ~trackingConfig[l].present
    ELSE NumPlatforms + 1

SectionOps(q) == [k \in 1..Len(trackingConfig[q].ids) |-> WrappedOp(q, k)]

\* aggregator.ts: ids.map(async id => { try ... catch ... }) : every callback runs
\* up to its await, then `await Promise.all(promises)`
EnterPlain(ops) ==
    /\ operations' = ops
    /\ i' = 0
    /\ results' = <<>>
    /\ pc' = IF 0 < Len(ops) THEN "batch" ELSE "done"
    /\ tasks' = [j \in 1..Len(ops) |-> Invoke(NewTask, 0)]
    /\ calls' = [j \in 1..Len(ops) |-> IF probed THEN 1 ELSE 0]
    /\ slept' = [j \in 1..Len(ops) |-> <<>>]
    /\ UNCHANGED <<maxConcurrent, delayBetweenRequests, pauseTimer, thrown, sinceJoin, outOfOrder,
                   startedNow>>

\* a section that leaves the limit of its platform to the default of throttleRequests
SectionLimitDefault(q) == 3

\* the maxConcurrent a section of collectAllStats hands to throttleRequests
SectionLimit(q) == Platforms[q].maxConcurrent

\* collectAllStats from section q on, with allStats = collected; generateReport
\* aggregates what collectAllStats returns
EnterSection(q, collected) ==
    /\ allStats' = collected
    /\ platformIdx' = NextSection(q)
    /\ IF NextSection(q) > NumPlatforms
       THEN /\ cpc' = "done"
            /\ report' = AggregateStats(collected)
            /\ UNCHANGED <<callVars, i, results, pc, tasks, calls, slept, pauseTimer, thrown,
                           sinceJoin, outOfOrder, startedNow>>
       ELSE /\ cpc' = "collecting"
            /\ report' = report
            /\ IF impl = "throttled"
               THEN EnterThrottle(SectionOps(NextSection(q)),
                                  SectionLimit(NextSection(q)),
                                  Platforms[NextSection(q)].delay)
               ELSE EnterPlain(SectionOps(NextSection(q)))
    /\ UNCHANGED <<returned, historyVars, runVars, managerVars, githubVars,
                   inputVars, trackingConfig, elapsed, fetched>>

\* generateReport() is called
GenerateReport ==
    /\ cpc = "idle"
    /\ EnterSection(1, <<>>)

\* `await globalRateLimiter.throttleRequests(...)` / `await Promise.all(...)` returns:
\* results.forEach(stats => allStats.push(...stats)), then the next section
SectionDone ==
    /\ cpc = "collecting"
    /\ pc = "done"
    /\ EnterSection(platformIdx + 1, allStats \o Flatten(results))

\* aggregator.ts: an adapter call settles inside its try/catch; Promise.all
\* resolves with the values in input order once every promise has
PlainSettle(j) ==
    /\ impl = "plain"
    /\ tasks[j].st = "running"
    /\ \E out \in Outcomes(operations[j]) :
          LET ts == [tasks EXCEPT ![j] =
                        [@ EXCEPT !.st = IF out.ok THEN "resolved" ELSE "rejected",
                                  !.value = out.value, !.error = out.error]]
          IN /\ tasks' = ts
             /\ fetched' = fetched \cup {[p |-> operations[j].platform, k |-> operations[j].k,
                                          ok |-> out.adapterOk, error |-> out.error,
                                          records |-> out.value, invocation |-> calls[j]]}
             /\ outOfOrder' = (outOfOrder \/ \E h \in 1..(j - 1) : ts[h].st = "running")
             /\ IF ts[j].st = "rejected" /\ pc = "batch"
                THEN pc' = "failed" /\ thrown' = ts[j].error /\ results' = results
                ELSE IF pc = "batch" /\ \A k \in 1..N : ts[k].st = "resolved"
                THEN pc' = "done" /\ thrown' = thrown /\ results' = [k \in 1..N |-> ts[k].value]
                ELSE UNCHANGED <<pc, thrown, results>>
    /\ UNCHANGED <<returned, historyVars, runVars, managerVars, githubVars, startedNow,
                   inputVars, callVars, i, pauseTimer, calls, slept, sinceJoin, elapsed,
                   collectVars>>

MaxIds == 3

IdLists == {<<>>, <<IdA>>, <<IdA, IdB>>, <<IdA, IdB, IdC>>, <<IdA, IdB, IdC, IdD>>}

RECURSIVE TotalIds(_, _)
TotalIds(c, q) == IF q = 0 THEN 0 ELSE Len(c[q].ids) + TotalIds(c, q - 1)

TrackingConfigs ==
    {c \in [1..NumPlatforms -> {Absent} \cup {Listed(l) : l \in {m \in IdLists : Len(m) <= MaxIds}}] :
        TotalIds(c, NumPlatforms) <= MaxIds}

CollectFaults == {E429}

CollectInit ==
    /\ configGiven = EmptyConfig
    /\ config = RateLimiterConfig(EmptyConfig)
    /\ faults = CollectFaults
    /\ probed = TRUE
    /\ impl \in {"throttled", "plain"}
    /\ stats = <<>>
    /\ operations = <<>>
    /\ maxConcurrent = 3
    /\ delayBetweenRequests = 1000
    /\ NoCall
    /\ trackingConfig \in TrackingConfigs
    /\ cpc = "idle"
    /\ platformIdx = 0
    /\ allStats = <<>>
    /\ fetched = {}
    /\ report = NoReport
    /\ returned = <<>>
    /\ NoStagger
    /\ NoManager
    /\ NoGitHub
    /\ NoHistory
    /\ NoRun

CollectNext ==
    \/ GenerateReport
    \/ SectionDone
    \/ \E j \in 1..N : impl = "throttled" /\ OpSettle(j)
    \/ \E j \in 1..N : PlainSettle(j)
    \/ \E j \in 1..N : SleepResolve(j)
    \/ PauseResolve
    \/ AdvanceToTimer

SpecCollect == CollectInit /\ [][CollectNext]_vars

\* ---------------------------------------------------------------------------
\* Specification: a caller hands a record list to aggregateStats
\* ---------------------------------------------------------------------------
MaxStats == 3
MaxCalls == 2

AggPlatforms == {<<"n">>, <<"g">>, <<"n", Colon, "a">>}
AggNames == {<<"a">>, <<"b">>, <<"a", Colon, "b">>}
AggCounts == {1, 2}

StatInputs == {Stat(p, n, c) : p \in AggPlatforms, n \in AggNames, c \in AggCounts}

RECURSIVE StatLists(_)
StatLists(len) ==
    IF len = 0 THEN {<<>>}
    ELSE StatLists(len - 1)
         \cup {Append(l, s) : l \in {m \in StatLists(len - 1) : Len(m) = len - 1}, s \in StatInputs}

AggInit ==
    /\ configGiven = EmptyConfig
    /\ config = RateLimiterConfig(EmptyConfig)
    /\ faults = {}
    /\ probed = FALSE
    /\ impl = "throttled"
    /\ stats \in StatLists(MaxStats)
    /\ operations = <<>>
    /\ maxConcurrent = 3
    /\ delayBetweenRequests = 1000
    /\ NoCall
    /\ trackingConfig = [p \in 1..NumPlatforms |-> Absent]
    /\ cpc = "idle"
    /\ platformIdx = 0
    /\ allStats = <<>>
    /\ fetched = {}
    /\ report = NoReport
    /\ returned = <<>>
    /\ NoStagger
    /\ NoManager
    /\ NoGitHub
    /\ NoHistory
    /\ NoRun

\* aggregator.aggregateStats(stats), called again on the same list up to MaxCalls times
AggregateCall ==
    /\ Len(returned) < MaxCalls
    /\ report' = AggregateStats(stats)
    /\ returned' = Append(returned, report')
    /\ UNCHANGED <<historyVars, runVars, startedNow, managerVars, githubVars,
                   inputVars, callVars, i, results, pc, pauseTimer, thrown, tasks, calls, slept,
                   sinceJoin, outOfOrder, elapsed, trackingConfig, cpc, platformIdx, allStats,
                   fetched>>

AggNext == AggregateCall

SpecAgg == AggInit /\ [][AggNext]_vars

\* ---------------------------------------------------------------------------
\* Properties of throttleRequests (Spec)
\* ---------------------------------------------------------------------------
\* operations that have been started and whose executeWithRetry has not settled
InFlight == {j \in 1..N : tasks[j].st \in {"running", "backoff"}}

Settled(j) == tasks[j].st \in {"resolved", "rejected"}

GroupOf(j) == (j - 1) \div maxConcurrent

\* C1: at no point are more than maxConcurrent operations started and not yet
\* settled, whatever the operation list, maxConcurrent >= 1 and completion order.
C1_BoundedConcurrency == Cardinality(InFlight) <= maxConcurrent

\* five operations, maxConcurrent = 2, the second group fully in flight
C1_Witness ==
    /\ N = 5
    /\ maxConcurrent = 2
    /\ i = 2
    /\ InFlight = {3, 4}

\* C2: when throttleRequests returns, the list has the length of the input and its
\* j-th element is the result of the j-th operation, in whatever order the
\* operations of a group completed.
C2_OrderPreserved ==
    pc = "done" => results = [j \in 1..N |-> <<operations[j].id>>]

\* returned after a later operation of a group settled before an earlier one
C2_Witness ==
    /\ pc = "done"
    /\ outOfOrder
    /\ N > maxConcurrent
    /\ maxConcurrent > 1

\* the group joined last (the whole list once throttleRequests has returned)
JoinedUpTo ==
    CASE pc = "idle" -> 0
      [] pc \in {"batch", "failed"} -> i
      [] pc = "pause" -> i + maxConcurrent
      [] pc = "done" -> N

\* C3: an operation of group k+1 is started only when every operation of group k
\* has settled and 2 x delayBetweenRequests have passed since; the results of a
\* group are appended only when the group is joined.
C3_GroupBarrier ==
    /\ \A j \in 1..N : tasks[j].st # "pending" =>
          \A h \in 1..N : GroupOf(h) < GroupOf(j) => Settled(h)
    /\ (i > 0 /\ pc # "pause") => sinceJoin >= 2 * delayBetweenRequests
    /\ Len(results) = JoinedUpTo
    /\ \A j \in 1..Len(results) : tasks[j].st = "resolved" /\ results[j] = tasks[j].value

\* a second group is running after a pause that ended late
C3_Witness ==
    /\ pc = "batch"
    /\ i > 0
    /\ \E j \in BatchOf(i) : tasks[j].st = "running"
    /\ sinceJoin > 2 * delayBetweenRequests
    /\ Len(results) = i

\* an operation that was retried until maxRetries and failed with a retryable error
Exhausted(j) == tasks[j].st = "rejected" /\ ShouldRetry(tasks[j].error)

\* C6: when an operation has exhausted its retries, throttleRequests does not fail:
\* once everything has come to rest, every other operation has been executed and
\* the results have been returned.
C6_RetryExhaustionNotFatal ==
    (~Busy /\ \E j \in 1..N : Exhausted(j)) =>
        /\ pc = "done"
        /\ \A k \in 1..N : tasks[k].st # "pending"

\* ---------------------------------------------------------------------------
\* Properties of executeWithRetry (SpecRetry)
\* ---------------------------------------------------------------------------
\* the classification the specification gives: status 403 or 429, an abuse
\* detection message, or rate-limit headers
Retryable(error) ==
    \/ error.status \in {403, 429}
    \/ Includes(error.message, AbuseDetection)
    \/ error.headers.present /\ error.headers.remaining = "0"
    \/ error.headers.present /\ error.headers.retryAfter # NoHeader

\* C8: after a failed attempt the operation is invoked again iff fewer than
\* maxRetries retries were made and the error is retryable; any other failure is
\* surfaced at once, with no further invocation and no delay.
C8_RetryClassification ==
    /\ tasks[1].st = "backoff" =>
          /\ Retryable(tasks[1].error)
          /\ Len(slept[1]) <= config.maxRetries
          /\ calls[1] = Len(slept[1])
    /\ tasks[1].st = "rejected" =>
          /\ ~Retryable(tasks[1].error) \/ Len(slept[1]) = config.maxRetries
          /\ calls[1] = Len(slept[1]) + 1
          /\ tasks[1].timer = NoTimer

\* one retry after a retryable failure, then a non-retryable failure surfaced
C8_Witness ==
    /\ tasks[1].st = "rejected"
    /\ ~Retryable(tasks[1].error)
    /\ Len(slept[1]) = 1
    /\ calls[1] = 2

DefaultConfig ==
    [maxRetries |-> 3, baseDelay |-> 1000, maxDelay |-> 60000, backoffMultiplier |-> 2]

\* C9: the delay slept before retry n (0-indexed) is
\* min(baseDelay * multiplier^n, maxDelay); an operation that always fails with a
\* retryable error is invoked maxRetries + 1 times and then given up; with the
\* defaults that is 4 invocations and delays of 1000, 2000, 4000 ms.
C9_BackoffSchedule ==
    /\ \A n \in 1..Len(slept[1]) :
          slept[1][n] = Min(config.baseDelay * Pow(config.backoffMultiplier, n - 1),
                            config.maxDelay)
    /\ calls[1] <= config.maxRetries + 1
    /\ (tasks[1].st = "rejected" /\ Retryable(tasks[1].error)) =>
          calls[1] = config.maxRetries + 1
    /\ (tasks[1].st = "rejected" /\ Retryable(tasks[1].error) /\ config = DefaultConfig) =>
          /\ slept[1] = <<1000, 2000, 4000>>
          /\ calls[1] = 4

\* the default limiter gave up on an operation that kept answering 429
C9_Witness ==
    /\ config = DefaultConfig
    /\ tasks[1].st = "rejected"
    /\ tasks[1].error = E429
    /\ slept[1] = <<1000, 2000, 4000>>
    /\ calls[1] = 4

\* ---------------------------------------------------------------------------
\* Properties of collectAllStats / generateReport (SpecCollect)
\* ---------------------------------------------------------------------------
Configured == {pk \in (1..NumPlatforms) \X (1..MaxIds) :
                  trackingConfig[pk[1]].present /\ pk[2] <= Len(trackingConfig[pk[1]].ids)}

\* l occurs in s as a run of consecutive elements
Contains(s, l) ==
    \E at \in 0..(Len(s) - Len(l)) : \A n \in 1..Len(l) : s[at + n] = l[n]

\* C4: a failing adapter call never aborts the pass, and the flattened output
\* holds every record the adapter returned for each identifier that succeeded,
\* wherever the failures are.
C4_PartialFailureContained ==
    /\ pc # "failed"
    /\ cpc = "done" =>
          /\ \A pk \in Configured : \E f \in fetched : f.p = pk[1] /\ f.k = pk[2]
          /\ \A f \in fetched : f.ok => Contains(allStats, f.records)

\* a failure between two successes on one platform
C4_Witness ==
    /\ cpc = "done"
    /\ \E f1, f2, f3 \in fetched :
          /\ f1.p = f2.p /\ f2.p = f3.p
          /\ f1.k = 1 /\ f2.k = 2 /\ f3.k = 3
          /\ f1.ok /\ ~f2.ok /\ f3.ok
          /\ Contains(allStats, f1.records \o f3.records)

\* C5: the report carries an errors list holding exactly one CollectionError for
\* each (platform, identifier) whose adapter invocation failed.
C5_ErrorsReported ==
    cpc = "done" =>
        /\ "errors" \in DOMAIN report
        /\ Len(report.errors) = Cardinality({f \in fetched : ~f.ok})
        /\ \A f \in fetched : ~f.ok =>
              \E n \in 1..Len(report.errors) :
                  /\ report.errors[n].platform = Platforms[f.p].name
                  /\ report.errors[n].artifactName = trackingConfig[f.p].ids[f.k]

\* C7: an adapter call that failed with a rate-limit status is invoked again, until
\* maxRetries retries have been made.
C7_TransientRetried ==
    cpc = "done" =>
        \A f \in fetched :
            (~f.ok /\ f.error.status \in {403, 429} /\ f.invocation <= config.maxRetries) =>
                \E g \in fetched : g.p = f.p /\ g.k = f.k /\ g.invocation = f.invocation + 1

\* ---------------------------------------------------------------------------
\* Properties of aggregateStats (SpecAgg)
\* ---------------------------------------------------------------------------
RECURSIVE Sum(_)
Sum(ns) == IF ns = <<>> THEN 0 ELSE Head(ns) + Sum(Tail(ns))

\* C10: totalDownloads is the sum of the platforms' totalDownloads, and both are
\* the sum of downloadCount over the input records.
C10_SumInvariant ==
    report # NoReport =>
        /\ report.totalDownloads =
              Sum([n \in 1..Len(report.platformBreakdown) |->
                      report.platformBreakdown[n].totalDownloads])
        /\ report.totalDownloads = Sum([n \in 1..Len(stats) |-> stats[n].downloadCount])

\* three records over two platforms, one package counted twice
C10_Witness ==
    /\ report # NoReport
    /\ Len(stats) = 3
    /\ Len(report.platformBreakdown) = 2
    /\ report.uniquePackages = 2
    /\ report.totalDownloads = 5

\* the distinct (platform, artifactName) pairs among the records
Pairs(ss) == {<<ss[n].platform, ss[n].packageName>> : n \in 1..Len(ss)}

\* the records of one (platform, artifactName) pair
RecordsOf(ss, pair) ==
    {n \in 1..Len(ss) : ss[n].platform = pair[1] /\ ss[n].packageName = pair[2]}

\* C11: uniquePackages is the number of distinct (platform, artifactName) pairs
\* among the input records, whatever strings the platforms and names are: the
\* same name on two platforms counts twice and two pairs are never merged.
C11_UniqueCount ==
    report # NoReport => report.uniquePackages = Cardinality(Pairs(stats))

\* the keys of the package map in the order in which the input first shows them
RECURSIVE FirstSeenKeys(_)
FirstSeenKeys(ss) ==
    IF ss = <<>> THEN <<>>
    ELSE LET before == FirstSeenKeys(SubSeq(ss, 1, Len(ss) - 1))
             key == PackageKey(ss[Len(ss)])
         IN IF key \in Range(before) THEN before ELSE Append(before, key)

\* the downloads summed over the records of one key
KeyDownloads(ss, key) ==
    Sum([n \in 1..Len(ss) |-> IF PackageKey(ss[n]) = key THEN ss[n].downloadCount ELSE 0])

\* the place a stable descending sort gives the a-th key first seen
RankOf(ss, a) ==
    LET keys == FirstSeenKeys(ss)
    IN 1 + Cardinality({b \in 1..Len(keys) :
                            \/ KeyDownloads(ss, keys[b]) > KeyDownloads(ss, keys[a])
                            \/ b < a /\ KeyDownloads(ss, keys[b]) = KeyDownloads(ss, keys[a])})

\* C12: topPackages is in non-increasing order of downloads, and entries with
\* equal downloads stand in the order in which their keys were first met in the
\* input: the entry of the a-th key first seen stands at the place a stable
\* descending sort gives it.
C12_RankingOrder ==
    report # NoReport =>
        LET top == report.topPackages
            keys == FirstSeenKeys(stats)
        IN /\ Len(top) = Len(keys)
           /\ \A m \in 1..Len(top) : \A n \in 1..Len(top) :
                  m < n => top[m].downloads >= top[n].downloads
           /\ \A a \in 1..Len(keys) :
                  /\ top[RankOf(stats, a)].downloads = KeyDownloads(stats, keys[a])
                  /\ top[RankOf(stats, a)].name = Split(keys[a])[2]

\* three keys: the last one met has the most downloads and moves to the front,
\* the two before it tie and keep their input order
C12_Witness ==
    /\ report # NoReport
    /\ Len(stats) = 3
    /\ Len(report.topPackages) = 3
    /\ stats[1].downloadCount = 1 /\ stats[2].downloadCount = 1 /\ stats[3].downloadCount = 2
    /\ stats[1].platform = stats[2].platform
    /\ report.topPackages[1].name = stats[3].packageName
    /\ report.topPackages[2].name = stats[1].packageName
    /\ report.topPackages[3].name = stats[2].packageName
    /\ stats[1].packageName # stats[2].packageName

\* C13: topPackages has exactly one entry per distinct (platform, artifactName)
\* pair of the input, carrying the name exactly as the records have it, the
\* platform, and the sum of downloadCount over the records of the pair.
C13_RankingContent ==
    report # NoReport =>
        /\ Len(report.topPackages) = Cardinality(Pairs(stats))
        /\ \A pair \in Pairs(stats) :
               \E m \in 1..Len(report.topPackages) :
                   /\ report.topPackages[m].name = pair[2]
                   /\ report.topPackages[m].platform = pair[1]
                   /\ report.topPackages[m].downloads =
                          Sum([n \in 1..Len(stats) |->
                                 IF n \in RecordsOf(stats, pair) THEN stats[n].downloadCount
                                 ELSE 0])

MaxChunks == 2

CHUNK_DAYS == 540

\* a Date is a count of half days since the first day of the model: the day and
\* whether it is before or after noon (UTC, the zone formatDate prints in)
TicksPerDay == 2

\* formatDate(date): the UTC day of the date
FormatDate(date) == date \div TicksPerDay

\* addDays(date, days): the same time of day, days later
AddDays(date, days) == date + days * TicksPerDay

\* the day on which the model's run takes place
TodayDay == CHUNK_DAYS * MaxChunks

\* json.downloads of the provider's answer to the range startDay:endDay, kept to
\* the first and the last day of the range; every element is an object of its
\* own (ref), and a provider that overlaps adds the day after the range
Response(request, startDay, endDay) ==
    LET days == <<startDay>> \o (IF endDay > startDay THEN <<endDay>> ELSE <<>>)
                    \o (IF overlap THEN <<endDay + 1>> ELSE <<>>)
    IN [n \in 1..Len(days) |-> [day |-> days[n], downloads |-> 1, ref |-> <<request, n>>]]

\* Array.from(new Set(entries)): a Set of objects holds every object once
Unique(entries) ==
    LET kept == {n \in 1..Len(entries) : \A m \in 1..(n - 1) : entries[m] # entries[n]}
        Nth(k) == CHOOSE n \in kept : Cardinality({m \in kept : m < n}) = k - 1
    IN [k \in 1..Cardinality(kept) |-> entries[Nth(k)]]

\* getFullDownloadHistory is called: today = new Date(), currentStart = startDate
HistoryCall ==
    /\ hpc = "idle"
    /\ currentStart' = startDate
    /\ allDownloads' = <<>>
    /\ hpc' = "loop"
    /\ UNCHANGED <<today, startDate, overlap, end, requests, series>>
    /\ UNCHANGED <<inputVars, callVars, i, results, pc, pauseTimer, thrown, tasks, calls, slept,
                   sinceJoin, outOfOrder, elapsed, collectVars, fetched, returned, runVars,
                   startedNow, managerVars, githubVars>>

\* while (currentStart < today): the end of the chunk is computed and fetchChunk
\* sends its request
FetchChunk ==
    /\ hpc = "loop"
    /\ currentStart < today
    /\ LET currentEnd == AddDays(currentStart, CHUNK_DAYS - 1)
       IN end' = IF currentEnd > today THEN today ELSE currentEnd
    /\ requests' = Append(requests, [start |-> FormatDate(currentStart), end |-> FormatDate(end')])
    /\ hpc' = "fetching"
    /\ UNCHANGED <<today, startDate, overlap, currentStart, allDownloads, series>>
    /\ UNCHANGED <<inputVars, callVars, i, results, pc, pauseTimer, thrown, tasks, calls, slept,
                   sinceJoin, outOfOrder, elapsed, collectVars, fetched, returned, runVars,
                   startedNow, managerVars, githubVars>>

\* the provider answers: the chunk is appended and currentStart moves past end
ChunkResolve ==
    /\ hpc = "fetching"
    /\ allDownloads' = allDownloads \o Response(Len(requests), FormatDate(currentStart),
                                                FormatDate(end))
    /\ currentStart' = AddDays(end, 1)
    /\ hpc' = "loop"
    /\ UNCHANGED <<today, startDate, overlap, end, requests, series>>
    /\ UNCHANGED <<inputVars, callVars, i, results, pc, pauseTimer, thrown, tasks, calls, slept,
                   sinceJoin, outOfOrder, elapsed, collectVars, fetched, returned, runVars,
                   startedNow, managerVars, githubVars>>

\* the provider answers with !res.ok: fetchChunk throws and the call rejects
ChunkReject ==
    /\ hpc = "fetching"
    /\ hpc' = "rejected"
    /\ UNCHANGED <<today, startDate, overlap, currentStart, end, allDownloads, requests, series>>
    /\ UNCHANGED <<inputVars, callVars, i, results, pc, pauseTimer, thrown, tasks, calls, slept,
                   sinceJoin, outOfOrder, elapsed, collectVars, fetched, returned, runVars,
                   startedNow, managerVars, githubVars>>

\* the loop is left and the series is returned
HistoryReturn ==
    /\ hpc = "loop"
    /\ ~(currentStart < today)
    /\ series' = Unique(allDownloads)
    /\ hpc' = "returned"
    /\ UNCHANGED <<today, startDate, overlap, currentStart, end, allDownloads, requests>>
    /\ UNCHANGED <<inputVars, callVars, i, results, pc, pauseTimer, thrown, tasks, calls, slept,
                   sinceJoin, outOfOrder, elapsed, collectVars, fetched, returned, runVars,
                   startedNow, managerVars, githubVars>>

HistoryInit ==
    /\ configGiven = EmptyConfig
    /\ config = RateLimiterConfig(EmptyConfig)
    /\ faults = {}
    /\ probed = FALSE
    /\ operations = <<>>
    /\ maxConcurrent = 3
    /\ delayBetweenRequests = 1000
    /\ NoCall
    /\ NoCollect
    /\ returned = <<>>
    /\ NoStagger
    /\ NoManager
    /\ NoGitHub
    /\ NoRun
    /\ today \in {AddDays(0, TodayDay) + t : t \in 0..(TicksPerDay - 1)}
    /\ startDate \in 0..(AddDays(0, TodayDay + 2) - 1)
    /\ overlap \in BOOLEAN
    /\ currentStart = 0
    /\ end = 0
    /\ allDownloads = <<>>
    /\ requests = <<>>
    /\ hpc = "idle"
    /\ series = <<>>

HistoryNext ==
    \/ HistoryCall
    \/ FetchChunk
    \/ ChunkResolve
    \/ ChunkReject
    \/ HistoryReturn

SpecHistory == HistoryInit /\ [][HistoryNext]_vars

\* ---------------------------------------------------------------------------
\* Properties of getFullDownloadHistory (SpecHistory)
\* ---------------------------------------------------------------------------
\* C15: the returned series never has two entries of the same day, also when
\* the provider's answers for adjacent chunks both hold the boundary day.
C15_NoDuplicateDays ==
    hpc = "returned" =>
        \A m \in 1..Len(series) : \A n \in 1..Len(series) :
            series[m].day = series[n].day => m = n

\* the days from the start date to today, both included
RangeDays == FormatDate(today) - FormatDate(startDate) + 1

CeilDiv(a, b) == (a + b - 1) \div b

\* C16: a start date not after today makes exactly ceil(rangeDays / 540) chunk
\* requests, rangeDays counting the days from the start date to today both
\* included; a start date after today makes none and returns an empty series.
C16_RequestCount ==
    hpc = "returned" =>
        IF FormatDate(startDate) > FormatDate(today)
        THEN requests = <<>> /\ series = <<>>
        ELSE Len(requests) = CeilDiv(RangeDays, CHUNK_DAYS)

\* C17: the requests are made one after another in ascending order; each covers
\* [cursor, min(cursor + 539, today)] and the next cursor is the day after the
\* end before, so the windows are disjoint, span at most 540 days and together
\* cover every day from the start date to today once; the loop ends once
\* cursor >= today.
C17_ChunkWindows ==
    /\ hpc = "fetching" => Len(requests) >= 1
    /\ \A n \in 1..Len(requests) :
           /\ requests[n].start = IF n = 1 THEN FormatDate(startDate) ELSE requests[n - 1].end + 1
           /\ requests[n].end = Min(requests[n].start + CHUNK_DAYS - 1, FormatDate(today))
           /\ requests[n].end - requests[n].start + 1 <= CHUNK_DAYS
    /\ hpc = "returned" =>
           /\ currentStart >= today
           /\ \A day \in FormatDate(startDate)..FormatDate(today) :
                  Cardinality({n \in 1..Len(requests) :
                                  requests[n].start <= day /\ day <= requests[n].end}) = 1

\* ---------------------------------------------------------------------------
\* Properties of collectAllStats: order (SpecCollect)
\* ---------------------------------------------------------------------------
\* the section of collectAllStats a record comes from
SectionOf(stat) == CHOOSE p \in 1..NumPlatforms : Platforms[p].name = stat.platform

\* the place of a record's identifier in its platform's list of the configuration
IdIndex(stat) ==
    CHOOSE k \in 1..Len(trackingConfig[SectionOf(stat)].ids) :
        trackingConfig[SectionOf(stat)].ids[k] = stat.packageName

\* C19: within a platform the records of collectAllStats' output stand grouped
\* by identifier, in the order of the identifiers in the configuration, in
\* whatever order the fetches complete.
C19_ConfigurationOrder ==
    \A m \in 1..Len(allStats) : \A n \in 1..Len(allStats) :
        (m < n /\ allStats[m].platform = allStats[n].platform) =>
            IdIndex(allStats[m]) <= IdIndex(allStats[n])

\* collection is over, a later fetch of a platform completed before an earlier
\* one, and both delivered records
C19_Witness ==
    /\ cpc = "done"
    /\ outOfOrder
    /\ \E m \in 1..Len(allStats) : \E n \in 1..Len(allStats) :
           /\ allStats[m].platform = allStats[n].platform
           /\ IdIndex(allStats[m]) < IdIndex(allStats[n])

\* ---------------------------------------------------------------------------
\* Specification: a run of main() (index.ts) or of run() (action.ts, part_003)
\* ---------------------------------------------------------------------------
\* validateConfig(config): the list of error messages it returns
ValidateConfig(c, interval) ==
    (IF \A p \in 1..NumPlatforms : ~c[p].present
     THEN <<"No packages configured for tracking.">> ELSE <<>>)
    \o (IF ~Falsy(interval) /\ interval < 60000
        THEN <<"Update interval should be at least 60 seconds.">> ELSE <<>>)

\* main(): defaultConfig, two identifiers a platform, one PowerShell module and
\* an empty list of Postman collections
MainConfig ==
    [p \in 1..NumPlatforms |->
        IF Platforms[p].field = "powershellModules" THEN Listed(<<IdA>>)
        ELSE IF Platforms[p].field = "postmanCollections" THEN Listed(<<>>)
        ELSE Listed(<<IdA, IdB>>)]

\* the configurations handed to run(): nothing configured, every list empty,
\* one npm package, and testConfig of config.ts
NoPlatforms == [p \in 1..NumPlatforms |-> Absent]
EmptyLists == [p \in 1..NumPlatforms |-> Listed(<<>>)]
OneNpm == [p \in 1..NumPlatforms |-> IF p = 1 THEN Listed(<<IdA>>) ELSE Absent]
TestConfig ==
    [p \in 1..NumPlatforms |->
        IF Platforms[p].field \in {"npmPackages", "pythonPackages", "homebrewPackages"}
        THEN Listed(<<IdA>>) ELSE Listed(<<>>)]
RunConfigs == {NoPlatforms, EmptyLists, OneNpm, TestConfig}

UpdateIntervals == {Undef, 1000, 3600000}
OutputInputs == {"json", "csv", "report", "readme"}
RunFaults == {E404}

\* generatePreviewReport: mockStats
MockStats ==
    << Stat(Platforms[1].name, <<"lodash">>, 1500000),
       Stat(Platforms[1].name, <<"axios">>, 800000),
       Stat(Platforms[2].name, <<"microsoft/vscode">>, 500000),
       Stat(Platforms[3].name, <<"requests">>, 300000),
       Stat(Platforms[4].name, <<"git">>, 250000),
       Stat(Platforms[5].name, <<"PowerShellGet">>, 120000),
       Stat(Platforms[6].name, <<"Postman Collection">>, 75000),
       Stat(Platforms[7].name, <<"github.com/gin-gonic/gin">>, 45000) >>

\* the operations of every section of collectAllStats, in order
RECURSIVE ConfiguredOps(_)
ConfiguredOps(q) ==
    IF q > NumPlatforms THEN <<>>
    ELSE (IF trackingConfig[q].present THEN SectionOps(q) ELSE <<>>) \o ConfiguredOps(q + 1)

\* collectAllStats run from start to end, every adapter settling with the same
\* answer (NoError: records; an error: caught, [])
CollectAllStats(answer) ==
    LET ops == ConfiguredOps(1)
        out(j) == CHOOSE o \in Outcomes(ops[j]) : o.error = answer
    IN [stats |-> Flatten([j \in 1..Len(ops) |-> out(j).value]),
        invocations |->
            {[p |-> ops[j].platform, k |-> ops[j].k, ok |-> out(j).adapterOk,
              error |-> out(j).error, records |-> out(j).value,
              invocation |-> 1 + Cardinality({f \in fetched :
                                                 f.p = ops[j].platform /\ f.k = ops[j].k})] :
             j \in 1..Len(ops)}]

\* main(): new UsageStatisticsManager(defaultConfig)
StartMain ==
    /\ entry = "main"
    /\ rpc = "idle"
    /\ rpc' = "configured"
    /\ UNCHANGED <<entry, configInput, updateInterval, warned, previewMode, outputPaths,
                   inActions, effects, runError>>
    /\ UNCHANGED <<inputVars, callVars, i, results, pc, pauseTimer, thrown, tasks, calls, slept,
                   sinceJoin, outOfOrder, elapsed, collectVars, fetched, returned, historyVars, startedNow,
                   managerVars, githubVars>>

\* run() of action.ts up to `new UsageStatisticsManager(trackingConfig)`: the
\* config input is parsed, validateConfig is called and what it returns is dropped
StartAction ==
    /\ entry = "action"
    /\ rpc = "idle"
    /\ IF configInput = "invalid"
       THEN rpc' = "done" /\ runError' = "Invalid config input"
       ELSE IF configInput = "null"
       THEN rpc' = "done" /\ runError' = "Configuration validation failed"
       ELSE /\ ValidateConfig(trackingConfig, updateInterval) \in Seq(STRING)
            /\ rpc' = "configured"
            /\ runError' = runError
    /\ UNCHANGED <<entry, configInput, updateInterval, warned, previewMode, outputPaths,
                   inActions, effects>>
    /\ UNCHANGED <<inputVars, callVars, i, results, pc, pauseTimer, thrown, tasks, calls, slept,
                   sinceJoin, outOfOrder, elapsed, collectVars, fetched, returned, historyVars, startedNow,
                   managerVars, githubVars>>

\* run() of part_003 up to `new UsageStatisticsManager(trackingConfig)`: the
\* lists are split from the inputs and an empty configuration is warned about
StartInputs ==
    /\ entry = "inputs"
    /\ rpc = "idle"
    /\ warned' = (TotalIds(trackingConfig, NumPlatforms) = 0 /\ ~previewMode)
    /\ rpc' = "configured"
    /\ UNCHANGED <<entry, configInput, updateInterval, previewMode, outputPaths, inActions,
                   effects, runError>>
    /\ UNCHANGED <<inputVars, callVars, i, results, pc, pauseTimer, thrown, tasks, calls, slept,
                   sinceJoin, outOfOrder, elapsed, collectVars, fetched, returned, historyVars, startedNow,
                   managerVars, githubVars>>

\* report = previewMode ? generatePreviewReport() : generateComprehensiveReport()
RunReport ==
    /\ rpc = "configured"
    /\ IF previewMode
       THEN /\ report' = AggregateStats(MockStats)
            /\ UNCHANGED <<allStats, fetched>>
       ELSE \E answer \in {NoError} \cup faults :
            /\ allStats' = CollectAllStats(answer).stats
            /\ fetched' = fetched \cup CollectAllStats(answer).invocations
            /\ report' = AggregateStats(allStats')
    /\ rpc' = "reported"
    /\ lastUpdateTime' = ReportTime(TRUE)
    /\ log' = Append(log, Observed(IF previewMode THEN "generatePreviewReport"
                                    ELSE "generateComprehensiveReport",
                                    TRUE, lastUpdateTime', report'))
    /\ UNCHANGED <<entry, configInput, updateInterval, warned, previewMode, outputPaths,
                   inActions, effects, runError>>
    /\ UNCHANGED <<inputVars, callVars, i, results, pc, pauseTimer, thrown, tasks, calls, slept,
                   sinceJoin, outOfOrder, elapsed, trackingConfig, cpc, platformIdx, returned,
                   historyVars, startedNow, mpc, githubVars>>

\* main(): manager.exportReport('json'), which generates a comprehensive report
\* of its own and prints it
MainExport ==
    /\ entry = "main"
    /\ rpc = "reported"
    /\ \E answer \in {NoError} \cup faults :
          /\ allStats' = CollectAllStats(answer).stats
          /\ fetched' = fetched \cup CollectAllStats(answer).invocations
          /\ lastUpdateTime' = ReportTime(TRUE)
          /\ log' = Append(log, Observed("exportReport", TRUE, lastUpdateTime',
                                          AggregateStats(allStats')))
    /\ rpc' = "exported"
    /\ UNCHANGED <<entry, configInput, updateInterval, warned, previewMode, outputPaths,
                   inActions, effects, runError>>
    /\ UNCHANGED <<inputVars, callVars, i, results, pc, pauseTimer, thrown, tasks, calls, slept,
                   sinceJoin, outOfOrder, elapsed, trackingConfig, cpc, platformIdx, report,
                   returned, historyVars, startedNow, mpc, githubVars>>

\* main(): writeStatsFile, updateReadmeWithStats and gitCommitAndPush, unless in
\* preview mode or outside GitHub Actions
MainPublish ==
    /\ entry = "main"
    /\ rpc = "exported"
    /\ effects' = IF ~previewMode /\ inActions
                  THEN effects \o <<"stats-file", "readme", "git-commit">>
                  ELSE effects
    /\ rpc' = "done"
    /\ UNCHANGED <<entry, configInput, updateInterval, warned, previewMode, outputPaths,
                   inActions, runError>>
    /\ UNCHANGED <<inputVars, callVars, i, results, pc, pauseTimer, thrown, tasks, calls, slept,
                   sinceJoin, outOfOrder, elapsed, collectVars, fetched, returned, historyVars, startedNow,
                   managerVars, githubVars>>

\* run(): the JSON output, the CSV output (manager.exportReport('csv') generates
\* a comprehensive report of its own), the readable report and the README
ActionOutputs ==
    /\ entry \in {"action", "inputs"}
    /\ rpc = "reported"
    /\ IF "csv" \in outputPaths
       THEN \E answer \in {NoError} \cup faults :
            /\ allStats' = CollectAllStats(answer).stats
            /\ fetched' = fetched \cup CollectAllStats(answer).invocations
            /\ lastUpdateTime' = ReportTime(TRUE)
            /\ log' = Append(log, Observed("exportReport", TRUE, lastUpdateTime',
                                            AggregateStats(allStats')))
       ELSE UNCHANGED <<allStats, fetched, lastUpdateTime, log>>
    /\ effects' = effects
                  \o (IF "json" \in outputPaths THEN <<"json-output">> ELSE <<>>)
                  \o (IF "csv" \in outputPaths THEN <<"csv-output">> ELSE <<>>)
                  \o (IF "report" \in outputPaths THEN <<"report-output">> ELSE <<>>)
                  \o (IF "readme" \in outputPaths THEN <<"readme">> ELSE <<>>)
    /\ rpc' = "done"
    /\ UNCHANGED <<entry, configInput, updateInterval, warned, previewMode, outputPaths,
                   inActions, runError>>
    /\ UNCHANGED <<inputVars, callVars, i, results, pc, pauseTimer, thrown, tasks, calls, slept,
                   sinceJoin, outOfOrder, elapsed, trackingConfig, cpc, platformIdx, report,
                   returned, historyVars, startedNow, mpc, githubVars>>

RunInit ==
    /\ configGiven = EmptyConfig
    /\ config = RateLimiterConfig(EmptyConfig)
    /\ faults = RunFaults
    /\ probed = FALSE
    /\ impl = "plain"
    /\ stats = <<>>
    /\ operations = <<>>
    /\ maxConcurrent = 3
    /\ delayBetweenRequests = 1000
    /\ NoCall
    /\ cpc = "idle"
    /\ platformIdx = 0
    /\ allStats = <<>>
    /\ fetched = {}
    /\ report = NoReport
    /\ returned = <<>>
    /\ NoStagger
    /\ NoManager
    /\ NoGitHub
    /\ NoHistory
    /\ entry \in {"main", "action", "inputs"}
    /\ previewMode \in BOOLEAN
    /\ \/ /\ entry = "main"
          /\ configInput = "object"
          /\ trackingConfig = MainConfig
          /\ updateInterval = 3600000
          /\ outputPaths = {}
          /\ inActions \in BOOLEAN
       \/ /\ entry = "action"
          /\ configInput \in {"object", "null", "invalid"}
          /\ IF configInput = "object"
             THEN trackingConfig \in RunConfigs /\ updateInterval \in UpdateIntervals
             ELSE trackingConfig = NoPlatforms /\ updateInterval = Undef
          /\ outputPaths \in SUBSET OutputInputs
          /\ inActions = TRUE
       \/ /\ entry = "inputs"
          /\ configInput = "object"
          /\ trackingConfig \in {c \in RunConfigs : \A p \in 1..NumPlatforms : c[p].present}
          /\ updateInterval = 3600000
          /\ outputPaths \in SUBSET OutputInputs
          /\ inActions = TRUE
    /\ warned = FALSE
    /\ rpc = "idle"
    /\ effects = <<>>
    /\ runError = "none"

RunNext ==
    \/ StartMain
    \/ StartAction
    \/ StartInputs
    \/ RunReport
    \/ MainExport
    \/ MainPublish
    \/ ActionOutputs

SpecRun == RunInit /\ [][RunNext]_vars

\* ---------------------------------------------------------------------------
\* Properties of a run (SpecRun)
\* ---------------------------------------------------------------------------
\* no platform of the configuration lists an identifier
NoIdentifiers == \A p \in 1..NumPlatforms : trackingConfig[p].ids = <<>>

\* C18: with no artifact identifier on any platform (every list absent or
\* empty) the run reports a configuration error to its caller and halts before
\* any adapter or network call.
C18_ConfigurationFatal ==
    (configInput = "object" /\ NoIdentifiers /\ rpc \notin {"idle"}) =>
        /\ rpc = "done"
        /\ runError # "none"
        /\ fetched = {}
        /\ effects = <<>>

\* C20: a run in preview mode invokes no adapter's getDownloadStats and makes no
\* stats-file write, README update or git commit, from its start to its end.
C20_PreviewIsolation ==
    previewMode =>
        /\ fetched = {}
        /\ \A n \in 1..Len(effects) : effects[n] \notin {"stats-file", "readme", "git-commit"}

\* ---------------------------------------------------------------------------
\* Specification: a caller uses a UsageStatisticsManager (index.ts)
\* ---------------------------------------------------------------------------
MaxObserved == 3

ManagerConfigs == {OneNpm, TestConfig}
ManagerFaults == {E404}
\* the platform arguments of getPlatformReport: npm, github, and a name no tracker has
UnknownPlatform == 0
PlatformArgs == {1, 2, UnknownPlatform}
AwaitedOps == {"generateComprehensiveReport", "getPlatformReport", "exportReport"}

\* this.trackers.get(platform)
HasTracker(q) == q \in 1..NumPlatforms

\* getPlatformStats(platform): every package of the platform is fetched inside
\* its own try/catch, and Promise.all keeps the order of the packages
GetPlatformStats(q, answer) ==
    LET ops == SectionOps(q)
        out(j) == CHOOSE o \in Outcomes(ops[j]) : o.error = answer
    IN [stats |-> Flatten([j \in 1..Len(ops) |-> out(j).value]),
        invocations |->
            {[p |-> ops[j].platform, k |-> ops[j].k, ok |-> out(j).adapterOk,
              error |-> out(j).error, records |-> out(j).value,
              invocation |-> 1 + Cardinality({f \in fetched :
                                                 f.p = ops[j].platform /\ f.k = ops[j].k})] :
             j \in 1..Len(ops)}]

\* generateComprehensiveReport(), getPlatformReport(platform) or exportReport()
\* is called and awaits the statistics
ManagerCall(op, q) ==
    /\ mpc = Idle
    /\ Len(log) < MaxObserved
    /\ mpc' = [op |-> op, platform |-> IF op = "getPlatformReport" THEN q ELSE 0]
    /\ UNCHANGED <<lastUpdateTime, log>>
    /\ UNCHANGED <<inputVars, callVars, i, results, pc, pauseTimer, thrown, tasks, calls, slept,
                   sinceJoin, outOfOrder, elapsed, collectVars, fetched, returned, historyVars,
                   runVars, startedNow, githubVars>>

\* the awaited statistics arrive: aggregateStats, lastUpdateTime = new Date(),
\* return report; getPlatformStats throws for a platform without a tracker
ManagerSettle ==
    /\ mpc # Idle
    /\ \E answer \in {NoError} \cup faults :
          LET known == mpc.op # "getPlatformReport" \/ HasTracker(mpc.platform)
              got == IF mpc.op # "getPlatformReport" THEN CollectAllStats(answer)
                     ELSE IF known THEN GetPlatformStats(mpc.platform, answer)
                     ELSE [stats |-> <<>>, invocations |-> {}]
          IN /\ allStats' = IF known THEN got.stats ELSE allStats
             /\ fetched' = fetched \cup got.invocations
             /\ report' = IF known THEN AggregateStats(got.stats) ELSE report
             /\ lastUpdateTime' = ReportTime(known)
             /\ log' = Append(log, Observed(mpc.op, known, lastUpdateTime',
                                            IF known THEN report' ELSE NoReport))
    /\ mpc' = Idle
    /\ UNCHANGED <<inputVars, callVars, i, results, pc, pauseTimer, thrown, tasks, calls, slept,
                   sinceJoin, outOfOrder, elapsed, trackingConfig, cpc, platformIdx, returned,
                   historyVars, runVars, startedNow, githubVars>>

\* generatePreviewReport(): nothing is awaited before lastUpdateTime is set
GeneratePreviewReport ==
    /\ Len(log) < MaxObserved
    /\ report' = AggregateStats(MockStats)
    /\ lastUpdateTime' = ReportTime(TRUE)
    /\ log' = Append(log, Observed("generatePreviewReport", TRUE, lastUpdateTime', report'))
    /\ UNCHANGED <<inputVars, callVars, i, results, pc, pauseTimer, thrown, tasks, calls, slept,
                   sinceJoin, outOfOrder, elapsed, trackingConfig, cpc, platformIdx, allStats,
                   fetched, returned, historyVars, runVars, startedNow, mpc, githubVars>>

\* getLastUpdateTime()
GetLastUpdateTime ==
    /\ Len(log) < MaxObserved
    /\ log' = Append(log, Observed("getLastUpdateTime", TRUE, lastUpdateTime, NoReport))
    /\ UNCHANGED <<inputVars, callVars, i, results, pc, pauseTimer, thrown, tasks, calls, slept,
                   sinceJoin, outOfOrder, elapsed, collectVars, fetched, returned, historyVars,
                   runVars, startedNow, lastUpdateTime, mpc, githubVars>>

ManagerInit ==
    /\ configGiven = EmptyConfig
    /\ config = RateLimiterConfig(EmptyConfig)
    /\ faults = ManagerFaults
    /\ probed = FALSE
    /\ impl = "plain"
    /\ stats = <<>>
    /\ operations = <<>>
    /\ maxConcurrent = 3
    /\ delayBetweenRequests = 1000
    /\ NoCall
    /\ trackingConfig \in ManagerConfigs
    /\ cpc = "idle"
    /\ platformIdx = 0
    /\ allStats = <<>>
    /\ fetched = {}
    /\ report = NoReport
    /\ returned = <<>>
    /\ NoStagger
    /\ NoManager
    /\ NoGitHub
    /\ NoHistory
    /\ NoRun

ManagerNext ==
    \/ \E op \in AwaitedOps, q \in PlatformArgs : ManagerCall(op, q)
    \/ ManagerSettle
    \/ GeneratePreviewReport
    \/ GetLastUpdateTime

SpecManager == ManagerInit /\ [][ManagerNext]_vars

\* the operations that end with `this.lastUpdateTime = new Date()`; exportReport
\* awaits generateComprehensiveReport
ReportOps ==
    {"generateComprehensiveReport", "getPlatformReport", "generatePreviewReport", "exportReport"}

\* a report-generating operation has completed among the first n observations
Completed(n) == \E m \in 1..n : log[m].op \in ReportOps /\ log[m].ok

\* C21: getLastUpdateTime() returns null on a fresh manager and as long as no
\* report-generating operation has completed (a rejected getPlatformReport and
\* an operation still awaiting its statistics do not count); once one has
\* completed it returns a time, which is never null again.
C21_LastUpdateTime ==
    /\ (lastUpdateTime = Null) <=> ~Completed(Len(log))
    /\ \A n \in 1..Len(log) :
          log[n].op = "getLastUpdateTime" =>
             ((log[n].time = Null) <=> ~Completed(n - 1))

\* null was observed on the fresh manager, then a report completed, then a time
\* was observed
C21_Witness ==
    /\ Len(log) >= 3
    /\ log[1].op = "getLastUpdateTime" /\ log[1].time = Null
    /\ log[2].op \in ReportOps /\ log[2].ok
    /\ log[3].op = "getLastUpdateTime" /\ log[3].time # Null

\* ---------------------------------------------------------------------------
\* Specification: a caller uses a GitHubTracker (trackers/github.ts)
\* ---------------------------------------------------------------------------
MaxRequests == 3

Slash == "/"

\* String.prototype.split('/')
RECURSIVE SplitSlash(_)
SplitSlash(str) ==
    IF \E n \in 1..Len(str) : str[n] = Slash
    THEN LET n == CHOOSE m \in 1..Len(str) :
                      str[m] = Slash /\ \A l \in 1..(m - 1) : str[l] # Slash
         IN <<SubSeq(str, 1, n - 1)>> \o SplitSlash(SubSeq(str, n + 1, Len(str)))
    ELSE <<str>>

\* const [owner, repo] = repository.split('/'); !owner || !repo
InvalidRepository(str) ==
    LET parts == SplitSlash(str)
    IN Len(parts) < 2 \/ parts[1] = <<>> \/ parts[2] = <<>>

Repositories == {<<"o", Slash, "r">>, <<"o">>, <<Slash, "r">>}

OptionInputs ==
    {NoOptions, [releaseTag |-> "v1", assetName |-> ""], [releaseTag |-> "", assetName |-> "a"]}

Asset(name, count) == [name |-> name, download_count |-> count]
Release(tag, assets) == [tag_name |-> tag, assets |-> assets]

\* what GET /repos/{owner}/{repo}/releases may answer with
ReleaseLists ==
    {<<>>,
     <<Release("v1", <<Asset("a", 2), Asset("b", 1)>>)>>,
     <<Release("v2", <<Asset("a", 3)>>), Release("v1", <<Asset("a", 2)>>)>>}

\* what GET /repos/{owner}/{repo} answers with
RepositoryInfo == [stargazers_count |-> 1, forks_count |-> 0]

E403Abuse ==
    Err(403, <<"You", "have", "triggered", "an", "abuse", "detection", "mechanism">>, NoHeaders)
EInvalidRepository == Err(Undef, <<"Invalid", "repository", "format">>, NoHeaders)

\* the ways a request to api.github.com fails
GitHubFaults == {E403Abuse, E403, E404, ENetwork}

\* the catch of the Octokit branch, the `!response.ok` of the fetch branch:
\* whether the request is sent again after sleep(60000)
RetriesAfter(error) ==
    IF octokit
    THEN error.status = 403 /\ Includes(error.message, AbuseDetection)
    ELSE error.status = 403

\* the two loops of getDownloadStats over the releases and their assets
RECURSIVE AssetStats(_, _, _)
AssetStats(release, assets, opts) ==
    IF assets = <<>> THEN <<>>
    ELSE (IF opts.assetName # "" /\ Head(assets).name # opts.assetName
          THEN <<>>
          ELSE <<[platform |-> Platforms[2].name, packageName |-> repository,
                  releaseTag |-> release.tag_name, assetName |-> Head(assets).name,
                  downloadCount |-> Head(assets).download_count]>>)
         \o AssetStats(release, Tail(assets), opts)

RECURSIVE ReleaseStats(_, _)
ReleaseStats(releases, opts) ==
    IF releases = <<>> THEN <<>>
    ELSE (IF opts.releaseTag # "" /\ Head(releases).tag_name # opts.releaseTag
          THEN <<>>
          ELSE AssetStats(Head(releases), Head(releases).assets, opts))
         \o ReleaseStats(Tail(releases), opts)

\* one more request has been sent; the count stops at MaxRequests
Issue(n) == IF n < MaxRequests THEN n + 1 ELSE n

\* getDownloadStats(repository, options) is called: the repository string is
\* split, an invalid one throws inside the try and [] is returned; otherwise
\* getReleases sends its request
GetDownloadStats ==
    /\ gpc = "idle"
    /\ gcall' = "getDownloadStats"
    /\ IF InvalidRepository(repository)
       THEN /\ gpc' = "resolved"
            /\ gvalue' = <<>>
            /\ gerror' = EInvalidRepository
            /\ issued' = issued
       ELSE /\ gpc' = "requesting"
            /\ issued' = Issue(issued)
            /\ UNCHANGED <<gvalue, gerror>>
    /\ UNCHANGED <<repository, options, octokit>>
    /\ UNCHANGED <<inputVars, callVars, i, results, pc, pauseTimer, thrown, tasks, calls, slept,
                   sinceJoin, outOfOrder, elapsed, collectVars, fetched, returned, historyVars,
                   runVars, startedNow, managerVars>>

\* getPackageInfo(repository) is called: the request is sent without a check of
\* owner and repo
GetPackageInfo ==
    /\ gpc = "idle"
    /\ gcall' = "getPackageInfo"
    /\ gpc' = "requesting"
    /\ issued' = Issue(issued)
    /\ UNCHANGED <<repository, options, octokit, gvalue, gerror>>
    /\ UNCHANGED <<inputVars, callVars, i, results, pc, pauseTimer, thrown, tasks, calls, slept,
                   sinceJoin, outOfOrder, elapsed, collectVars, fetched, returned, historyVars,
                   runVars, startedNow, managerVars>>

\* the request is answered with data
GitHubAnswer ==
    /\ gpc = "requesting"
    /\ \E data \in ReleaseLists :
          gvalue' = IF gcall = "getDownloadStats" THEN ReleaseStats(data, options)
                    ELSE <<RepositoryInfo>>
    /\ gpc' = "resolved"
    /\ gerror' = NoError
    /\ UNCHANGED <<repository, options, octokit, gcall, issued>>
    /\ UNCHANGED <<inputVars, callVars, i, results, pc, pauseTimer, thrown, tasks, calls, slept,
                   sinceJoin, outOfOrder, elapsed, collectVars, fetched, returned, historyVars,
                   runVars, startedNow, managerVars>>

\* the request fails: after a 403 the call sleeps 60000 ms to send the request
\* again; any other failure is thrown, which getPackageInfo passes on and
\* getDownloadStats catches to return []
GitHubFail ==
    /\ gpc = "requesting"
    /\ \E error \in GitHubFaults :
          /\ gerror' = error
          /\ IF RetriesAfter(error)
             THEN gpc' = "sleeping" /\ gvalue' = gvalue
             ELSE IF gcall = "getDownloadStats"
             THEN gpc' = "resolved" /\ gvalue' = <<>>
             ELSE gpc' = "rejected" /\ gvalue' = gvalue
    /\ UNCHANGED <<repository, options, octokit, gcall, issued>>
    /\ UNCHANGED <<inputVars, callVars, i, results, pc, pauseTimer, thrown, tasks, calls, slept,
                   sinceJoin, outOfOrder, elapsed, collectVars, fetched, returned, historyVars,
                   runVars, startedNow, managerVars>>

\* sleep(60000) resolves: `return this.getReleases(owner, repo)` /
\* `return this.getPackageInfo(repository)` sends the request again
GitHubWake ==
    /\ gpc = "sleeping"
    /\ gpc' = "requesting"
    /\ issued' = Issue(issued)
    /\ UNCHANGED <<repository, options, octokit, gcall, gvalue, gerror>>
    /\ UNCHANGED <<inputVars, callVars, i, results, pc, pauseTimer, thrown, tasks, calls, slept,
                   sinceJoin, outOfOrder, elapsed, collectVars, fetched, returned, historyVars,
                   runVars, startedNow, managerVars>>

GitHubInit ==
    /\ configGiven = EmptyConfig
    /\ config = RateLimiterConfig(EmptyConfig)
    /\ faults = GitHubFaults
    /\ probed = FALSE
    /\ operations = <<>>
    /\ maxConcurrent = 3
    /\ delayBetweenRequests = 1000
    /\ NoCall
    /\ NoCollect
    /\ returned = <<>>
    /\ NoStagger
    /\ NoManager
    /\ repository \in Repositories
    /\ options \in OptionInputs
    /\ octokit \in BOOLEAN
    /\ gcall = "none"
    /\ gpc = "idle"
    /\ issued = 0
    /\ gvalue = <<>>
    /\ gerror = NoError
    /\ NoHistory
    /\ NoRun

GitHubNext ==
    \/ GetDownloadStats
    \/ GetPackageInfo
    \/ GitHubAnswer
    \/ GitHubFail
    \/ GitHubWake

SpecGitHub == GitHubInit /\ [][GitHubNext]_vars

\* every request is answered or fails (request timeout), and the timer of a
\* sleep fires
SpecGitHubFair ==
    /\ SpecGitHub
    /\ WF_vars(GitHubAnswer \/ GitHubFail)
    /\ WF_vars(GitHubWake)

\* C22: getDownloadStats never rejects, and for every identifier (also one that
\* is not owner/repo) and every failure of the API it resolves, with [] when
\* the call failed.
C22_FailureAsValue ==
    /\ [](gcall = "getDownloadStats" => gpc # "rejected")
    /\ [](gcall = "getDownloadStats" /\ gpc = "resolved" /\ gerror # NoError => gvalue = <<>>)
    /\ (gcall = "getDownloadStats" ~> gpc = "resolved")

\* C23: a call of the adapter sends its request at most once; after a failed
\* request, a 403 included, it fails or returns without sending it again.
C23_NoInternalRetry ==
    /\ issued <= 1
    /\ gpc # "sleeping"

\* C25: after a 403 the request is sent again once, 60 seconds later; a request
\* that keeps being answered with 403 is sent at most twice in all, and then
\* the failure is surfaced.
C25_RetryBounded ==
    /\ issued <= 2
    /\ (gpc = "sleeping" => issued = 1)

\* ---------------------------------------------------------------------------
\* Specification: throttleRequests(operations) with its default maxConcurrent,
\* the caller watching the instants at which the operations are first invoked
\* ---------------------------------------------------------------------------
MaxStaggerOps == 4

\* throttleRequests: maxConcurrent = 3
DefaultMaxConcurrent == 3

StaggerFaults == {E429}

StaggerInit ==
    /\ configGiven = SmallConfig
    /\ config = RateLimiterConfig(SmallConfig)
    /\ faults = StaggerFaults
    /\ probed = FALSE
    /\ \E n \in 0..MaxStaggerOps : operations = [j \in 1..n |-> RawOp(j)]
    /\ maxConcurrent = DefaultMaxConcurrent
    /\ delayBetweenRequests \in ThrottleDelays
    /\ NoCall
    /\ NoCollect
    /\ returned = <<>>
    /\ timed = TRUE
    /\ startedNow = {}
    /\ NoManager
    /\ NoGitHub
    /\ NoHistory
    /\ NoRun

StaggerNext ==
    \/ ThrottleCall
    \/ \E j \in 1..N : OpSettle(j)
    \/ \E j \in 1..N : SleepResolve(j)
    \/ PauseResolve
    \/ AdvanceToTimer
    \/ Elapse

SpecStagger == StaggerInit /\ [][StaggerNext]_vars

\* C24: in each group the operation at index 0 starts at once, every operation
\* at an index > 0 starts only after the delay, and no two operations of one
\* group start at the same instant.
C24_WithinGroupStagger ==
    /\ pc = "batch" => tasks[i + 1].st \notin {"pending", "sleeping"}
    /\ \A j \in 1..N : tasks[j].st = "sleeping" => tasks[j].timer <= delayBetweenRequests
    /\ \A j \in startedNow, k \in startedNow : j # k => GroupOf(j) # GroupOf(k)

\* the adapter fetches that are in flight
Fetching == {j \in 1..N : tasks[j].st = "running"}

\* the limits the claim names: 1 for GitHub, 2 for every other platform
ClaimedLimit(q) == IF Platforms[q].field = "githubRepos" THEN 1 ELSE 2

AuxPlatforms == {<<"n">>, <<"g">>}
AuxNames == {<<"a">>, <<"b">>}

\* version, timestamp, period and metadata of a BaseDownloadStats
Aux(version, timestamp, period, metadata) ==
    [version |-> version, timestamp |-> timestamp, period |-> period, metadata |-> metadata]

AuxFirst == Aux("1.0.0", 1, "total", "none")
AuxLater == Aux("2.0.0", 2, "daily", "stars")
AuxBare == Aux("", 3, "", "")

FullStat(platform, packageName, downloadCount, aux) ==
    [platform |-> platform, packageName |-> packageName, downloadCount |-> downloadCount,
     version |-> aux.version, timestamp |-> aux.timestamp, period |-> aux.period,
     metadata |-> aux.metadata]

AuxOf(stat) == Aux(stat.version, stat.timestamp, stat.period, stat.metadata)

\* the record with the auxiliary fields of the first collection
Restored(stat) == FullStat(stat.platform, stat.packageName, stat.downloadCount, AuxFirst)

FullStatInputs ==
    {FullStat(p, n, c, AuxFirst) : p \in AuxPlatforms, n \in AuxNames, c \in AggCounts}

RECURSIVE FullStatLists(_)
FullStatLists(len) ==
    IF len = 0 THEN {<<>>}
    ELSE FullStatLists(len - 1)
         \cup {Append(l, s) : l \in {m \in FullStatLists(len - 1) : Len(m) = len - 1},
                              s \in FullStatInputs}

\* the lists that agree with ss position by position on platform, packageName
\* and downloadCount, every record carrying other auxiliary fields
Restamped(ss) ==
    {[n \in 1..Len(ss) |->
         FullStat(ss[n].platform, ss[n].packageName, ss[n].downloadCount, a[n])] :
     a \in [1..Len(ss) -> {AuxLater, AuxBare}]}

\* the records are collected again: same platform, name and count, new
\* version, timestamp, period and metadata
Restamp ==
    /\ Len(returned) = 1
    /\ stats # <<>>
    /\ \A n \in 1..Len(stats) : AuxOf(stats[n]) = AuxFirst
    /\ stats' \in Restamped(stats)
    /\ UNCHANGED <<config, faults, probed, impl, configGiven, timed>>
    /\ UNCHANGED <<callVars, i, results, pc, pauseTimer, thrown, tasks, calls, slept,
                   sinceJoin, outOfOrder, elapsed, collectVars, fetched, returned, historyVars,
                   runVars, startedNow, managerVars, githubVars>>

AuxInit ==
    /\ configGiven = EmptyConfig
    /\ config = RateLimiterConfig(EmptyConfig)
    /\ faults = {}
    /\ probed = FALSE
    /\ impl = "throttled"
    /\ stats \in FullStatLists(MaxStats)
    /\ operations = <<>>
    /\ maxConcurrent = 3
    /\ delayBetweenRequests = 1000
    /\ NoCall
    /\ trackingConfig = [p \in 1..NumPlatforms |-> Absent]
    /\ cpc = "idle"
    /\ platformIdx = 0
    /\ allStats = <<>>
    /\ fetched = {}
    /\ report = NoReport
    /\ returned = <<>>
    /\ NoStagger
    /\ NoManager
    /\ NoGitHub
    /\ NoHistory
    /\ NoRun

AuxNext ==
    \/ AggregateCall
    \/ Restamp

SpecAux == AuxInit /\ [][AuxNext]_vars

\* C27: record lists that agree position by position on platform, name and
\* downloadCount give the same report whatever their metadata, period, version
\* and timestamp are: every report returned equals the first one, and the last
\* one equals the report of the list with its auxiliary fields set back.
C27_AuxiliaryIgnored ==
    /\ \A m \in 1..Len(returned) : returned[m] = returned[1]
    /\ returned # <<>> =>
          returned[Len(returned)] = AggregateStats([n \in 1..Len(stats) |-> Restored(stats[n])])

\* a list of three records of two platforms was aggregated, its records were
\* given other auxiliary fields, two of them different ones, and it was
\* aggregated again
C27_Witness ==
    /\ Len(returned) = 2
    /\ Len(stats) = 3
    /\ AuxOf(stats[1]) = AuxLater
    /\ AuxOf(stats[2]) = AuxBare
    /\ stats[1].packageName = stats[2].packageName
    /\ stats[1].platform = stats[2].platform
    /\ Len(returned[2].platforms) = 2

\* C28: in every report each platform's packages list has no duplicate names
\* and uniquePackages is its length, the keys of platformBreakdown are the
\* platforms list, and the platforms' uniquePackages add up to the report's
\* uniquePackages, which is the length of topPackages.
C28_BreakdownConsistent ==
    report # NoReport =>
        /\ \A n \in 1..Len(report.platformBreakdown) :
              LET b == report.platformBreakdown[n]
              IN /\ \A k \in 1..Len(b.packages), l \in 1..Len(b.packages) :
                       b.packages[k] = b.packages[l] => k = l
                 /\ b.uniquePackages = Len(b.packages)
        /\ [n \in 1..Len(report.platformBreakdown) |-> report.platformBreakdown[n].key]
              = report.platforms
        /\ Sum([n \in 1..Len(report.platformBreakdown) |->
                   report.platformBreakdown[n].uniquePackages]) = report.uniquePackages
        /\ report.uniquePackages = Len(report.topPackages)

\* every value of the configuration was given to the constructor
Explicit(c) ==
    /\ c.maxRetries # Undef
    /\ c.baseDelay # Undef
    /\ c.maxDelay # Undef
    /\ c.backoffMultiplier # Undef

\* C29: a RateLimiter constructed with explicit maxRetries, baseDelay, maxDelay
\* and backoffMultiplier uses exactly those values; with maxRetries = 0 a
\* failure is surfaced after a single invocation, without a retry.
C29_ConfiguredPolicy ==
    /\ Explicit(configGiven) => config = configGiven
    /\ configGiven.maxRetries = 0 => (calls[1] <= 1 /\ tasks[1].st # "backoff")

\* C30: a run of main makes one collection pass: the adapter fetch of every
\* configured identifier is submitted once, and the JSON report that is exported
\* is the report of the pass that was displayed.
C30_SinglePass ==
    (entry = "main" /\ ~previewMode) =>
        /\ \A f \in fetched : f.invocation = 1
        /\ \A n \in 1..Len(log) : log[n].op = "exportReport" => log[n].report = report

====
